---- MODULE Spec2Model ----
(***************************************************************************)
(* Model of the asynchronous logging engine of include/logger.hpp:         *)
(* class Logger (the process-wide facade) and Logger::Impl (configuration, *)
(* file handle, queue, condition variable, background worker, rotation).   *)
(*                                                                         *)
(* Caller threads execute the public operations statement by statement at  *)
(* the granularity of the synchronisation points of the code; the worker   *)
(* thread executes loggingWorker / writeLogMessage / rotateLogFile.        *)
(***************************************************************************)
EXTENDS Integers, Sequences, FiniteSets, TLC

\* ------------------------------------------------------------------ enums
\* enum class LogLevel
TRACE == 0
DEBUG == 1
INFO == 2
WARN == 3
ERROR == 4
CRITICAL == 5
LogLevel == TRACE..CRITICAL

\* enum class LogTarget
CONSOLE == 1
FILE == 2
BOTH == 3
LogTarget == {CONSOLE, FILE, BOTH}

\* ----------------------------------------------------------------- bounds
\* Calls the client thread may start when it is the only one calling.
MaxOps == 4
\* Calls each of two concurrent threads may start once the engine runs.
ConcOps == 2
\* One max_file_size_mb unit (1024 * 1024 bytes in the code) in model bytes.
MiB == 3
\* Length in model bytes of a line produced by the logger itself (bootstrap
\* records of initialize, the "Log file rotated" notice).
BootLen == 1
\* Backup slots path.1 .. path.MaxSlot the file system model keeps track of.
MaxSlot == 3

\* Default arguments of Logger::initialize / the lazy path of Logger::log.
DefaultSizeMb == 10
DefaultBackups == 5

Slots == 0..MaxSlot

Threads == {"t1", "t2"}
W == "worker"
Procs == Threads \cup {W}
NoOne == "nobody"

\* -------------------------------------------------------------- variables
VARIABLES
    \* Logger
    pImpl,                 \* Logger::pImpl is non-null
    \* Logger::Impl configuration
    current_log_level, log_target, max_file_size_bytes, max_backup_files,
    \* std::ofstream log_file: is_open() and the stream's failbit
    log_file_open, log_file_fail,
    \* the directory: which of path (slot 0) and path.i (slot i) exist, and
    \* the lines each holds
    fexists, fdata,
    \* async queue, its mutex, the I/O mutex, the threads blocked in
    \* queue_condition
    log_queue, queue_mutex, log_mutex, cv_waiting,
    \* should_stop; logging_thread.joinable(); the thread blocked in join()
    should_stop, joinable, joiner,
    \* control state of every thread: program counter, where logMessage and
    \* flush return to, arguments of the running call, locals
    pc, lm_ret, fl_ret, carg, arg, i_k, f_timedout, wmsg,
    \* what the process has written to stdout
    console,
    \* history: lines written through the file handle; lines handed to
    \* writeLogMessage; per-producer count of formatted lines
    fileWritten, handed, seq,
    \* environment: calls left per thread; result of the last getLogLevel;
    \* number of lines accepted when the running shutdown was called, whether
    \* the engine was Running then; std::terminate was called; a call ended by
    \* an exception
    ops, got, sd_mark, sd_running, aborted, threw,
    \* one call of formatLogMessage: its arguments with the clock reading and
    \* the calling thread's id, and the string it returned (<<>> before)
    fmt_call, fmt_str,
    \* WebApiServer::handleLogLevelRequest: the request being served, the
    \* locals level_str and new_level of the POST branch, the last response
    api_req, level_str, new_level, api_resp

cfgVars == <<current_log_level, log_target, max_file_size_bytes, max_backup_files>>
fileVars == <<log_file_open, log_file_fail, fexists, fdata>>
threadVars == <<joinable, joiner>>
histVars == <<console, fileWritten, handed>>
ctlVars == <<pc, lm_ret, fl_ret>>
locVars == <<carg, arg, i_k, f_timedout, wmsg>>
envVars == <<ops, got, sd_mark, sd_running, aborted, threw>>
fmtVars == <<fmt_call, fmt_str>>
apiVars == <<api_req, level_str, new_level, api_resp>>

vars == <<pImpl, current_log_level, log_target, max_file_size_bytes,
          max_backup_files, log_file_open, log_file_fail, fexists, fdata,
          log_queue, queue_mutex, log_mutex, cv_waiting, should_stop,
          joinable, joiner, pc, lm_ret, fl_ret, carg, arg, i_k,
          f_timedout,
          wmsg, console, fileWritten, handed, seq, ops, got, sd_mark,
          sd_running, aborted, threw, fmt_call, fmt_str, api_req,
          level_str, new_level, api_resp>>

\* ---------------------------------------------------------------- helpers
NoLine == [p |-> NoOne, n |-> 0, lvl |-> 0, len |-> 0, below |-> FALSE]
NoArg == [lvl |-> 0, len |-> 0, below |-> FALSE]
NoCall == [level |-> -1]
NoReq == [method |-> "none", body |-> <<>>]
NoResp == [status |-> 0, level |-> <<>>]

\* Where Logger::log returns to: the request handler that called it, or the
\* thread's top level.
Home(t) == IF api_req = NoReq THEN "idle" ELSE "post_reply"

RECURSIVE SumLen(_)
SumLen(s) == IF s = <<>> THEN 0 ELSE Head(s).len + SumLen(Tail(s))

\* std::filesystem::file_size(path) of slot i
FileSize(i) == SumLen(fdata[i])

\* Lines accepted (pushed) so far: handed to the write step, in the worker's
\* hands after the pop, or still queued.
InFlight == IF pc[W] \in {"w_iolock", "w_write"} THEN 1 ELSE 0
Accepted == Len(handed) + InFlight + Len(log_queue)

Goto(p, l) == pc' = [pc EXCEPT ![p] = l]

\* The histories and the recorded content of a file hold at most MaxRecords
\* lines and the call numbers stop at MaxRecords: what a longer run appends
\* beyond that is no longer recorded (the file keeps the size it has then).
MaxRecords == 16
Count(n) == IF n < MaxRecords THEN n + 1 ELSE n
Remember(h, line) == IF Len(h) < MaxRecords THEN Append(h, line) ELSE h

Alive == ~aborted

\* ------------------------------------------------------------------- Init
\* The process after the Logger singleton is constructed, before any call.
Process ==
    /\ pImpl = FALSE
    /\ current_log_level = INFO
    /\ log_target = BOTH
    /\ max_file_size_bytes = DefaultSizeMb * MiB
    /\ max_backup_files = DefaultBackups
    /\ log_file_open = FALSE
    /\ log_file_fail = FALSE
    /\ log_queue = <<>>
    /\ queue_mutex = NoOne
    /\ log_mutex = NoOne
    /\ cv_waiting = {}
    /\ should_stop = FALSE
    /\ joinable = FALSE
    /\ joiner = NoOne
    /\ pc = [p \in Procs |-> IF p = W THEN "none" ELSE "idle"]
    /\ lm_ret = [p \in Procs |-> "idle"]
    /\ fl_ret = [p \in Threads |-> "idle"]
    /\ carg = [p \in Threads |-> NoArg]
    /\ arg = [p \in Procs |-> NoArg]
    /\ i_k = [p \in Threads |-> 0]
    /\ f_timedout = [p \in Threads |-> FALSE]
    /\ wmsg = NoLine
    /\ console = <<>>
    /\ fileWritten = <<>>
    /\ handed = <<>>
    /\ seq = [p \in Procs |-> 0]
    /\ got = [p \in Threads |-> INFO]
    /\ sd_mark = [p \in Threads |-> 0]
    /\ sd_running = [p \in Threads |-> FALSE]
    /\ aborted = FALSE
    /\ threw = FALSE
    /\ fmt_str = <<>>
    /\ api_req = NoReq
    /\ level_str = <<>>
    /\ new_level = INFO
    /\ api_resp = NoResp

\* The constructed process in a directory without log files.
Constructed ==
    /\ Process
    /\ fexists = {}
    /\ fdata = [i \in Slots |-> <<>>]

\* A caller thread starts a call.
Start(t) ==
    /\ Alive
    /\ pc[t] = "idle"
    /\ ops[t] > 0
    /\ ops' = [ops EXCEPT ![t] = ops[t] - 1]

restEnv == <<got, sd_mark, sd_running, aborted, threw>>

\* ------------------------------------------------------------- logMessage
\* A filter that lets the level just below the threshold through.
BelowThresholdOff(level, threshold) == level + 1 < threshold

\* Logger::Impl::logMessage, line 182: the level filter.
BelowThreshold(level, threshold) == level < threshold

\* Logger::Impl::formatLogMessage: the line carries the producing thread, the
\* level and the text; n is the number of the logMessage call among the
\* thread's calls, len is the line's length in bytes (with its line end),
\* below records whether the level was below the threshold when the filter
\* read it.
formatLogMessage(p, a, n) ==
    [p |-> p, n |-> n, lvl |-> a.lvl, len |-> a.len, below |-> a.below]

\* logMessage, lines 182-186, called by p with arguments a from a place that
\* continues at cont: return at once below the threshold, format otherwise.
\* seq numbers the calls of logMessage a thread has made.
LogMessage(p, a, cont) ==
    /\ seq' = [seq EXCEPT ![p] = Count(seq[p])]
    /\ lm_ret' = [lm_ret EXCEPT ![p] = cont]
    /\ IF BelowThreshold(a.lvl, current_log_level)
       THEN /\ pc' = [pc EXCEPT ![p] = cont]
            /\ UNCHANGED arg
       ELSE /\ arg' = [arg EXCEPT ![p] =
                         [a EXCEPT !.below = (a.lvl < current_log_level)]]
            /\ pc' = [pc EXCEPT ![p] = "lm_push"]

\* A queue that pushes at the front.
QueuePushFront(q, line) == <<line>> \o q

\* std::queue::push at the back (line 191).
QueuePush(q, line) == Append(q, line)

\* logMessage, lines 189-192: lock_guard(queue_mutex); push; unlock.
lm_push(p) ==
    /\ Alive
    /\ pc[p] = "lm_push"
    /\ queue_mutex = NoOne
    /\ log_queue' = QueuePush(log_queue, formatLogMessage(p, arg[p], seq[p]))
    /\ arg' = [arg EXCEPT ![p] = NoArg]
    /\ Goto(p, "lm_notify")
    /\ UNCHANGED <<pImpl, cfgVars, fileVars, queue_mutex, log_mutex, cv_waiting,
                   should_stop, threadVars, lm_ret, fl_ret, carg, i_k,
                   f_timedout, wmsg, histVars, seq, envVars>>
    /\ UNCHANGED <<fmtVars, apiVars>>

\* The label a thread blocked in queue_condition continues at once woken.
Woken(l) == IF l = "w_waiting" THEN "w_woken" ELSE "fl_woken"

\* logMessage, line 193: queue_condition.notify_one() wakes one of the
\* threads blocked in the condition variable, if there is one.
lm_notify(p) ==
    /\ Alive
    /\ pc[p] = "lm_notify"
    /\ IF cv_waiting = {}
       THEN /\ Goto(p, lm_ret[p])
            /\ UNCHANGED cv_waiting
       ELSE \E w \in cv_waiting :
              /\ cv_waiting' = cv_waiting \ {w}
              /\ pc' = [pc EXCEPT ![p] = lm_ret[p], ![w] = Woken(pc[w])]
    /\ UNCHANGED <<pImpl, cfgVars, fileVars, log_queue, queue_mutex, log_mutex,
                   should_stop, threadVars, lm_ret, fl_ret, locVars, histVars,
                   seq, envVars>>
    /\ UNCHANGED <<fmtVars, apiVars>>

\* ------------------------------------------------- openLogFile (166-179)
\* log_file.open(path, ios::app): opening a stream that is already open
\* fails and sets the failbit; a successful open clears the stream state and
\* creates the file when it does not exist; ok is whether the file system
\* lets the file be opened.
OpenLogFile(open, ok, ex) ==
    IF open
    THEN /\ log_file_fail' = TRUE
         /\ UNCHANGED log_file_open
         /\ fexists' = ex
    ELSE /\ log_file_open' = ok
         /\ log_file_fail' = ~ok
         /\ fexists' = IF ok THEN ex \cup {0} ELSE ex

\* --------------------------------- Logger::initialize (54-63), Impl (140-164)
\* Impl::initialize, lines 142-146.
Configure(a) ==
    /\ current_log_level' = a.lvl
    /\ log_target' = a.tgt
    /\ max_file_size_bytes' = a.mb * MiB
    /\ max_backup_files' = a.nb

\* Impl's default member initialisers (lines 118-122, 132) are the values the
\* fields have after construction, so make_unique<Impl>() only sets pImpl.
\* The null test and the assignment of pImpl are taken as one step.
initialize(t, level, target, mb, nb) ==
    /\ Start(t)
    /\ pImpl' = TRUE
    /\ Configure([lvl |-> level, tgt |-> target, mb |-> mb, nb |-> nb])
    /\ Goto(t, "init_open")
    /\ UNCHANGED <<fileVars, log_queue, queue_mutex, log_mutex, cv_waiting,
                   should_stop, threadVars, lm_ret, fl_ret, locVars, histVars,
                   seq, restEnv>>
    /\ UNCHANGED <<fmtVars, apiVars>>

\* lines 149-151
init_open(t, ok) ==
    /\ Alive
    /\ pc[t] = "init_open"
    /\ IF log_target \in {FILE, BOTH}
       THEN OpenLogFile(log_file_open, ok, fexists)
       ELSE UNCHANGED <<log_file_open, log_file_fail, fexists>>
    /\ Goto(t, "init_start")
    /\ UNCHANGED <<pImpl, cfgVars, fdata, log_queue, queue_mutex, log_mutex,
                   cv_waiting, should_stop, threadVars, lm_ret, fl_ret,
                   locVars, histVars, seq, envVars>>
    /\ UNCHANGED <<fmtVars, apiVars>>

\* An initialize that starts the worker without clearing the stop flag.
init_startStale(t) ==
    /\ Alive
    /\ pc[t] = "init_start"
    /\ UNCHANGED should_stop
    /\ IF joinable
       THEN /\ aborted' = TRUE
            /\ UNCHANGED <<pc, joinable, i_k>>
       ELSE /\ joinable' = TRUE
            /\ pc' = [pc EXCEPT ![t] = "boot", ![W] = "w_outer"]
            /\ i_k' = [i_k EXCEPT ![t] = 1]
            /\ UNCHANGED aborted
    /\ UNCHANGED <<pImpl, cfgVars, fileVars, log_queue, queue_mutex, log_mutex,
                   cv_waiting, joiner, lm_ret, fl_ret, carg, arg, f_timedout,
                   wmsg, histVars, seq, ops, got, sd_mark, sd_running, threw>>
    /\ UNCHANGED <<fmtVars, apiVars>>

\* lines 154-155: should_stop = false; logging_thread = std::thread(...).
\* Move-assigning to a std::thread that is joinable calls std::terminate.
init_start(t) ==
    /\ Alive
    /\ pc[t] = "init_start"
    /\ should_stop' = FALSE
    /\ IF joinable
       THEN /\ aborted' = TRUE
            /\ UNCHANGED <<pc, joinable, i_k>>
       ELSE /\ joinable' = TRUE
            /\ pc' = [pc EXCEPT ![t] = "boot", ![W] = "w_outer"]
            /\ i_k' = [i_k EXCEPT ![t] = 1]
            /\ UNCHANGED aborted
    /\ UNCHANGED <<pImpl, cfgVars, fileVars, log_queue, queue_mutex, log_mutex,
                   cv_waiting, joiner, lm_ret, fl_ret, carg, arg, f_timedout,
                   wmsg, histVars, seq, ops, got, sd_mark, sd_running, threw>>
    /\ UNCHANGED <<fmtVars, apiVars>>

\* lines 158-163: the records initialize logs about itself, the fourth only
\* when the target is not the console alone.
BootCount == IF log_target # CONSOLE THEN 4 ELSE 3
BootArg == [lvl |-> INFO, len |-> BootLen, below |-> FALSE]

\* The next logMessage of initialize; after the last, initialize returns, and
\* Logger::log (line 73) goes on to log the caller's record.
boot(t) ==
    /\ Alive
    /\ pc[t] = "boot"
    /\ IF i_k[t] <= BootCount
       THEN /\ i_k' = [i_k EXCEPT ![t] = i_k[t] + 1]
            /\ LogMessage(t, BootArg, "boot")
            /\ UNCHANGED carg
       ELSE /\ UNCHANGED i_k
            /\ carg' = [carg EXCEPT ![t] = NoArg]
            /\ IF carg[t] # NoArg
               THEN LogMessage(t, carg[t], Home(t))
               ELSE /\ Goto(t, "idle")
                    /\ UNCHANGED <<seq, lm_ret, arg>>
    /\ UNCHANGED <<pImpl, cfgVars, fileVars, log_queue, queue_mutex, log_mutex,
                   cv_waiting, should_stop, threadVars, fl_ret, f_timedout,
                   wmsg, histVars, envVars>>
    /\ UNCHANGED <<fmtVars, apiVars>>

\* ---------------------------------------------------- Logger::log (68-74)
\* A lazy configuration that lets everything through and opens the file.
LazyArgLoose == [lvl |-> TRACE, tgt |-> BOTH, mb |-> DefaultSizeMb, nb |-> DefaultBackups]

\* Lazy initialisation (lines 69-72) with the defaults of line 71, then
\* pImpl->logMessage.
LazyArg == [lvl |-> INFO, tgt |-> CONSOLE, mb |-> DefaultSizeMb, nb |-> DefaultBackups]

log(t, level, len) ==
    /\ Start(t)
    /\ LET a == [lvl |-> level, len |-> len, below |-> FALSE]
       IN IF ~pImpl
          THEN /\ pImpl' = TRUE
               /\ carg' = [carg EXCEPT ![t] = a]
               /\ Configure(LazyArg)
               /\ Goto(t, "init_open")
               /\ UNCHANGED <<seq, lm_ret, arg>>
          ELSE /\ LogMessage(t, a, "idle")
               /\ UNCHANGED <<pImpl, cfgVars, carg>>
    /\ UNCHANGED <<fileVars, log_queue, queue_mutex, log_mutex, cv_waiting,
                   should_stop, threadVars, fl_ret, i_k, f_timedout, wmsg,
                   histVars, restEnv>>
    /\ UNCHANGED <<fmtVars, apiVars>>

\* ------------------------------------- setLogLevel / getLogLevel (79-90)
\* The threshold after setLogLevel(level): written only if pImpl is set.
LevelAfterSet(level) == IF pImpl THEN level ELSE current_log_level

\* A setLogLevel that also drops the queued lines below the new threshold.
RECURSIVE KeepAtLeast(_, _)
KeepAtLeast(q, level) ==
    IF q = <<>> THEN <<>>
    ELSE IF Head(q).lvl >= level THEN <<Head(q)>> \o KeepAtLeast(Tail(q), level)
         ELSE KeepAtLeast(Tail(q), level)

setLogLevelPurging(t, level) ==
    /\ Start(t)
    /\ current_log_level' = LevelAfterSet(level)
    /\ log_queue' = KeepAtLeast(log_queue, current_log_level')
    /\ UNCHANGED <<pImpl, log_target, max_file_size_bytes, max_backup_files,
                   fileVars, queue_mutex, log_mutex, cv_waiting,
                   should_stop, threadVars, ctlVars, locVars, histVars, seq,
                   restEnv>>
    /\ UNCHANGED <<fmtVars, apiVars>>

setLogLevel(t, level) ==
    /\ Start(t)
    /\ current_log_level' = LevelAfterSet(level)
    /\ UNCHANGED <<pImpl, log_target, max_file_size_bytes, max_backup_files,
                   fileVars, log_queue, queue_mutex, log_mutex, cv_waiting,
                   should_stop, threadVars, ctlVars, locVars, histVars, seq,
                   restEnv>>
    /\ UNCHANGED <<fmtVars, apiVars>>

\* What getLogLevel() returns in the current state (line 89).
LevelRead == IF pImpl THEN current_log_level ELSE INFO

getLogLevel(t) ==
    /\ Start(t)
    /\ got' = [got EXCEPT ![t] = LevelRead]
    /\ UNCHANGED <<pImpl, cfgVars, fileVars, log_queue, queue_mutex, log_mutex,
                   cv_waiting, should_stop, threadVars, ctlVars, locVars,
                   histVars, seq, sd_mark, sd_running, aborted, threw>>
    /\ UNCHANGED <<fmtVars, apiVars>>

\* ------------------------------------------------ loggingWorker (213-228)
\* A worker whose loop ends as soon as the stop flag is set.
WorkerStopsAtOnce(stop, q) == ~stop

\* Line 214, the condition of the outer loop.  The reads are not under
\* queue_mutex; a read that races with a push sees the queue before or after
\* it, which is the interleaving of this step with lm_push.
WorkerContinues(stop, q) == ~stop \/ q # <<>>

w_outer ==
    /\ Alive
    /\ pc[W] = "w_outer"
    /\ Goto(W, IF WorkerContinues(should_stop, log_queue) THEN "w_lock" ELSE "w_done")
    /\ UNCHANGED <<pImpl, cfgVars, fileVars, log_queue, queue_mutex, log_mutex,
                   cv_waiting, should_stop, threadVars, lm_ret, fl_ret,
                   locVars, histVars, seq, envVars>>
    /\ UNCHANGED <<fmtVars, apiVars>>

\* Line 216, the predicate of queue_condition.wait.
WorkerPred == log_queue # <<>> \/ should_stop

QueueFront(q) == Head(q)
QueuePop(q) == Tail(q)

\* Lines 218-221 with queue_mutex held: pop the front line and unlock, or
\* leave the inner loop (the unique_lock unlocks at the end of the block).
InnerLoop ==
    IF log_queue # <<>>
    THEN /\ wmsg' = QueueFront(log_queue)
         /\ log_queue' = QueuePop(log_queue)
         /\ Goto(W, "w_iolock")
    ELSE /\ Goto(W, "w_outer")
         /\ UNCHANGED <<wmsg, log_queue>>

\* Lines 215-216 (and the re-acquisition after a wake-up): take queue_mutex
\* and evaluate the predicate; when it holds go through the inner loop, when
\* not keep the mutex until the wait releases it and blocks.
w_lock ==
    /\ Alive
    /\ pc[W] \in {"w_lock", "w_woken"}
    /\ queue_mutex = NoOne
    /\ IF WorkerPred
       THEN /\ InnerLoop
            /\ UNCHANGED queue_mutex
       ELSE /\ queue_mutex' = W
            /\ Goto(W, "w_block")
            /\ UNCHANGED <<wmsg, log_queue>>
    /\ UNCHANGED <<pImpl, cfgVars, fileVars, log_mutex, cv_waiting, should_stop,
                   threadVars, lm_ret, fl_ret, carg, arg, i_k,
                   f_timedout, histVars, seq, envVars>>
    /\ UNCHANGED <<fmtVars, apiVars>>

\* condition_variable::wait: release the mutex and block, atomically.
w_block ==
    /\ Alive
    /\ pc[W] = "w_block"
    /\ queue_mutex' = NoOne
    /\ cv_waiting' = cv_waiting \cup {W}
    /\ Goto(W, "w_waiting")
    /\ UNCHANGED <<pImpl, cfgVars, fileVars, log_queue, log_mutex, should_stop,
                   threadVars, lm_ret, fl_ret, locVars, histVars, seq, envVars>>
    /\ UNCHANGED <<fmtVars, apiVars>>

\* Line 225, lock.lock(), and the test of the inner loop.
w_relock ==
    /\ Alive
    /\ pc[W] = "w_relock"
    /\ queue_mutex = NoOne
    /\ InnerLoop
    /\ UNCHANGED <<pImpl, cfgVars, fileVars, queue_mutex, log_mutex, cv_waiting,
                   should_stop, threadVars, lm_ret, fl_ret, carg, arg,
                   i_k, f_timedout, histVars, seq, envVars>>
    /\ UNCHANGED <<fmtVars, apiVars>>

\* --------------------------------------------- writeLogMessage (230-248)
\* Line 231: lock_guard(log_mutex).
w_iolock ==
    /\ Alive
    /\ pc[W] = "w_iolock"
    /\ log_mutex = NoOne
    /\ log_mutex' = W
    /\ Goto(W, "w_write")
    /\ UNCHANGED <<pImpl, cfgVars, fileVars, log_queue, queue_mutex, cv_waiting,
                   should_stop, threadVars, lm_ret, fl_ret, locVars, histVars,
                   seq, envVars>>
    /\ UNCHANGED <<fmtVars, apiVars>>

\* A console write that ignores the target.
ToConsoleAlways(target) == TRUE

\* A console test that skips the console when a file is configured too.
ToConsoleOnly(target) == target = CONSOLE

ToConsole(target) == target \in {CONSOLE, BOTH}
ToFile(target, open) == target \in {FILE, BOTH} /\ open

\* A rotation check that lets the file reach twice the ceiling.
needsRotationLate(open, exists, size, ceiling) ==
    open /\ exists /\ size >= ceiling + ceiling

\* needsRotation (250-259); file_size throws when the file does not exist.
needsRotation(open, exists, size, ceiling) ==
    open /\ exists /\ size >= ceiling

\* Lines 234-246: the console write, the file write (a stream whose failbit
\* is set writes nothing), the rotation check.  Without rotation the
\* lock_guard releases log_mutex on return.
w_write ==
    /\ Alive
    /\ pc[W] = "w_write"
    /\ handed' = Remember(handed, wmsg)
    /\ wmsg' = NoLine
    /\ console' = IF ToConsole(log_target) THEN Remember(console, wmsg) ELSE console
    /\ LET tofile == ToFile(log_target, log_file_open)
           stored == tofile /\ ~log_file_fail
           data == IF stored THEN [fdata EXCEPT ![0] = Remember(fdata[0], wmsg)]
                   ELSE fdata
       IN /\ fdata' = data
          /\ fileWritten' = IF stored THEN Remember(fileWritten, wmsg) ELSE fileWritten
          /\ IF tofile /\ needsRotation(log_file_open, 0 \in fexists,
                                        SumLen(data[0]), max_file_size_bytes)
             THEN /\ Goto(W, "w_rotate")
                  /\ UNCHANGED log_mutex
             ELSE /\ Goto(W, "w_relock")
                  /\ log_mutex' = NoOne
    /\ UNCHANGED <<pImpl, cfgVars, log_file_open, log_file_fail, fexists,
                   log_queue, queue_mutex, cv_waiting, should_stop, threadVars,
                   lm_ret, fl_ret, carg, arg, i_k, f_timedout, seq, envVars>>
    /\ UNCHANGED <<fmtVars, apiVars>>

\* ------------------------------------------------ rotateLogFile (261-290)
\* A loop over the backups that starts one slot too low.
RotateFromLow(nb) == nb - 2

\* Line 266: the slot the loop over the backups starts at.
RotateFrom(nb) == nb - 1

\* A rotation that loses the active file when an operation fails.
RotateDirLosing(d, i, nb, f) ==
    IF f >= 0
    THEN [ex |-> d.ex \ {0}, dt |-> [d.dt EXCEPT ![0] = <<>>]]
    ELSE [ex |-> (d.ex \ {0}) \cup {1},
          dt |-> [d.dt EXCEPT ![1] = d.dt[0], ![0] = <<>>]]

\* Lines 266-281 on the directory d = [ex, dt] from slot i downwards: an
\* existing path.i is removed when i = nb - 1 and renamed to path.(i+1)
\* otherwise; then path is renamed to path.1.  f is the slot whose file
\* system operation throws (0: the rename of path; -1: none); the exception
\* ends the try block.
RECURSIVE RotateDir(_, _, _, _)
RotateDir(d, i, nb, f) ==
    IF i >= 1
    THEN IF i \in d.ex
         THEN IF f = i THEN d
              ELSE IF i = nb - 1
                   THEN RotateDir([ex |-> d.ex \ {i},
                                   dt |-> [d.dt EXCEPT ![i] = <<>>]], i - 1, nb, f)
                   ELSE RotateDir([ex |-> (d.ex \ {i}) \cup {i + 1},
                                   dt |-> [d.dt EXCEPT ![i + 1] = d.dt[i], ![i] = <<>>]],
                                  i - 1, nb, f)
         ELSE RotateDir(d, i - 1, nb, f)
    ELSE IF f = 0 \/ 0 \notin d.ex THEN d
         ELSE [ex |-> (d.ex \ {0}) \cup {1},
               dt |-> [d.dt EXCEPT ![1] = d.dt[0], ![0] = <<>>]]

RotateArg == [lvl |-> INFO, len |-> BootLen, below |-> FALSE]

\* rotateLogFile, with log_mutex held by the worker: close (after which
\* is_open() is false), shift the
\* backups, reopen, and the filter of the logMessage that records the
\* rotation.
w_rotate(f, ok) ==
    /\ Alive
    /\ pc[W] = "w_rotate"
    /\ LET d == RotateDir([ex |-> fexists, dt |-> fdata],
                          RotateFrom(max_backup_files), max_backup_files, f)
       IN /\ fdata' = d.dt
          /\ OpenLogFile(FALSE, ok, d.ex)
    /\ LogMessage(W, RotateArg, "w_unlockio")
    /\ UNCHANGED <<pImpl, cfgVars, log_queue, queue_mutex, log_mutex, cv_waiting,
                   should_stop, threadVars, fl_ret, carg, i_k,
                   f_timedout, wmsg, histVars, envVars>>
    /\ UNCHANGED <<fmtVars, apiVars>>

\* rotateLogFile and writeLogMessage return: the lock_guard releases log_mutex.
w_unlockio ==
    /\ Alive
    /\ pc[W] = "w_unlockio"
    /\ log_mutex' = NoOne
    /\ Goto(W, "w_relock")
    /\ UNCHANGED <<pImpl, cfgVars, fileVars, log_queue, queue_mutex, cv_waiting,
                   should_stop, threadVars, lm_ret, fl_ret, locVars, histVars,
                   seq, envVars>>
    /\ UNCHANGED <<fmtVars, apiVars>>

\* ------------------------------------- Logger::flush (95-99), Impl (292-302)
\* The predicate of wait_for, line 296.
FlushPred(q, stop) == q = <<>> \/ stop

\* A wait that is over at once.
WaitOverAtOnce(q, stop, timedout) == TRUE

\* wait_for(lock, timeout, pred) is over when the predicate holds or the
\* timeout has expired.
WaitOver(q, stop, timedout) == FlushPred(q, stop) \/ timedout

flush(t) ==
    /\ Start(t)
    /\ IF pImpl
       THEN /\ Goto(t, "fl_lock")
            /\ fl_ret' = [fl_ret EXCEPT ![t] = "idle"]
       ELSE UNCHANGED <<pc, fl_ret>>
    /\ UNCHANGED <<pImpl, cfgVars, fileVars, log_queue, queue_mutex, log_mutex,
                   cv_waiting, should_stop, threadVars, lm_ret, locVars,
                   histVars, seq, restEnv>>
    /\ UNCHANGED <<fmtVars, apiVars>>

\* Lines 294-296 (and the re-acquisition after a wake-up or the timeout):
\* take queue_mutex and evaluate the predicate; the mutex stays with the
\* thread until the wait releases it or flush returns.
fl_lock(t) ==
    /\ Alive
    /\ pc[t] \in {"fl_lock", "fl_woken"}
    /\ queue_mutex = NoOne
    /\ queue_mutex' = t
    /\ LET to == IF pc[t] = "fl_lock" THEN FALSE ELSE f_timedout[t]
       IN /\ f_timedout' = [f_timedout EXCEPT ![t] = to]
          /\ Goto(t, IF WaitOver(log_queue, should_stop, to)
                     THEN "fl_iolock" ELSE "fl_block")
    /\ UNCHANGED <<pImpl, cfgVars, fileVars, log_queue, log_mutex, cv_waiting,
                   should_stop, threadVars, lm_ret, fl_ret, carg, arg,
                   i_k, wmsg, histVars, seq, envVars>>
    /\ UNCHANGED <<fmtVars, apiVars>>

\* condition_variable::wait_for: release the mutex and block, atomically.
fl_block(t) ==
    /\ Alive
    /\ pc[t] = "fl_block"
    /\ queue_mutex' = NoOne
    /\ cv_waiting' = cv_waiting \cup {t}
    /\ Goto(t, "fl_waiting")
    /\ UNCHANGED <<pImpl, cfgVars, fileVars, log_queue, log_mutex, should_stop,
                   threadVars, lm_ret, fl_ret, locVars, histVars, seq, envVars>>
    /\ UNCHANGED <<fmtVars, apiVars>>

\* The 1000 ms of wait_for expire while the thread is blocked.
fl_timeout(t) ==
    /\ Alive
    /\ pc[t] = "fl_waiting"
    /\ t \in cv_waiting
    /\ cv_waiting' = cv_waiting \ {t}
    /\ f_timedout' = [f_timedout EXCEPT ![t] = TRUE]
    /\ Goto(t, "fl_woken")
    /\ UNCHANGED <<pImpl, cfgVars, fileVars, log_queue, queue_mutex, log_mutex,
                   should_stop, threadVars, lm_ret, fl_ret, carg, arg,
                   i_k, wmsg, histVars, seq, envVars>>
    /\ UNCHANGED <<fmtVars, apiVars>>

\* Lines 298-302: lock_guard(log_mutex) with queue_mutex still held, flush the
\* stream, release both mutexes, return.
fl_iolock(t) ==
    /\ Alive
    /\ pc[t] = "fl_iolock"
    /\ log_mutex = NoOne
    /\ queue_mutex' = NoOne
    /\ f_timedout' = [f_timedout EXCEPT ![t] = FALSE]
    /\ Goto(t, fl_ret[t])
    /\ UNCHANGED <<pImpl, cfgVars, fileVars, log_queue, log_mutex, cv_waiting,
                   should_stop, threadVars, lm_ret, fl_ret, carg, arg, i_k,
                   wmsg, histVars, seq, envVars>>
    /\ UNCHANGED <<fmtVars, apiVars>>

\* A condition variable may wake a blocked thread without a notification.
spurious(p) ==
    /\ Alive
    /\ p \in cv_waiting
    /\ cv_waiting' = cv_waiting \ {p}
    /\ Goto(p, Woken(pc[p]))
    /\ UNCHANGED <<pImpl, cfgVars, fileVars, log_queue, queue_mutex, log_mutex,
                   should_stop, threadVars, lm_ret, fl_ret, locVars, histVars,
                   seq, envVars>>
    /\ UNCHANGED <<fmtVars, apiVars>>

\* ------------------------------- Logger::shutdown (104-108), Impl (304-324)
\* A shutdown that runs the stop sequence whatever the state of the thread.
ShouldJoinAlways(j) == TRUE

\* Line 305: the stop sequence runs only while the worker thread is joinable.
ShouldJoin(j) == j

\* sd_mark remembers how many lines had been accepted when the call started,
\* sd_running whether the engine was Running then (worker started, stop flag
\* not set).
shutdown(t) ==
    /\ Start(t)
    /\ IF pImpl
       THEN /\ sd_mark' = [sd_mark EXCEPT ![t] = Accepted]
            /\ sd_running' = [sd_running EXCEPT ![t] = joinable /\ ~should_stop]
            /\ IF ShouldJoin(joinable)
               THEN /\ Goto(t, "fl_lock")
                    /\ fl_ret' = [fl_ret EXCEPT ![t] = "sd_stop"]
               ELSE /\ Goto(t, "sd_close")
                    /\ UNCHANGED fl_ret
       ELSE UNCHANGED <<pc, fl_ret, sd_mark, sd_running>>
    /\ UNCHANGED <<pImpl, cfgVars, fileVars, log_queue, queue_mutex, log_mutex,
                   cv_waiting, should_stop, threadVars, lm_ret, locVars,
                   histVars, seq, got, aborted, threw>>
    /\ UNCHANGED <<fmtVars, apiVars>>

\* Line 310: should_stop = true, without queue_mutex.
sd_stop(t) ==
    /\ Alive
    /\ pc[t] = "sd_stop"
    /\ should_stop' = TRUE
    /\ Goto(t, "sd_notify")
    /\ UNCHANGED <<pImpl, cfgVars, fileVars, log_queue, queue_mutex, log_mutex,
                   cv_waiting, threadVars, lm_ret, fl_ret, locVars, histVars,
                   seq, envVars>>
    /\ UNCHANGED <<fmtVars, apiVars>>

\* Line 311: queue_condition.notify_all() wakes every blocked thread.
sd_notify(t) ==
    /\ Alive
    /\ pc[t] = "sd_notify"
    /\ cv_waiting' = {}
    /\ pc' = [p \in Procs |-> IF p = t THEN "sd_join"
                              ELSE IF p \in cv_waiting THEN Woken(pc[p])
                              ELSE pc[p]]
    /\ UNCHANGED <<pImpl, cfgVars, fileVars, log_queue, queue_mutex, log_mutex,
                   should_stop, threadVars, lm_ret, fl_ret, locVars, histVars,
                   seq, envVars>>
    /\ UNCHANGED <<fmtVars, apiVars>>

\* Lines 314-316: join() on a thread another caller is already joining
\* throws std::system_error, which leaves shutdown.
sd_join(t) ==
    /\ Alive
    /\ pc[t] = "sd_join"
    /\ IF ~joinable
       THEN /\ Goto(t, "sd_close")
            /\ UNCHANGED <<joiner, threw>>
       ELSE IF joiner # NoOne
            THEN /\ threw' = TRUE
                 /\ Goto(t, "idle")
                 /\ UNCHANGED joiner
            ELSE /\ joiner' = t
                 /\ Goto(t, "sd_joining")
                 /\ UNCHANGED threw
    /\ UNCHANGED <<pImpl, cfgVars, fileVars, log_queue, queue_mutex, log_mutex,
                   cv_waiting, should_stop, joinable, lm_ret, fl_ret, locVars,
                   histVars, seq, ops, got, sd_mark, sd_running, aborted>>
    /\ UNCHANGED <<fmtVars, apiVars>>

\* A join that returns while loggingWorker is still running.
sd_joiningEarly(t) ==
    /\ Alive
    /\ pc[t] = "sd_joining"
    /\ joinable' = FALSE
    /\ joiner' = NoOne
    /\ Goto(t, "sd_close")
    /\ UNCHANGED <<pImpl, cfgVars, fileVars, log_queue, queue_mutex, log_mutex,
                   cv_waiting, should_stop, lm_ret, fl_ret, locVars, histVars,
                   seq, envVars>>
    /\ UNCHANGED <<fmtVars, apiVars>>

\* join() returns once loggingWorker has returned.
sd_joining(t) ==
    /\ Alive
    /\ pc[t] = "sd_joining"
    /\ pc[W] = "w_done"
    /\ joinable' = FALSE
    /\ joiner' = NoOne
    /\ Goto(t, "sd_close")
    /\ UNCHANGED <<pImpl, cfgVars, fileVars, log_queue, queue_mutex, log_mutex,
                   cv_waiting, should_stop, lm_ret, fl_ret, locVars, histVars,
                   seq, envVars>>
    /\ UNCHANGED <<fmtVars, apiVars>>

\* Where Impl::shutdown returns to: the client's call of Logger::shutdown,
\* or ~Impl (line 137) inside the assignment of line 70, which a thread is in
\* while it holds the record of its lazy log call.
Caller(t) == IF carg[t] # NoArg THEN "lg_make" ELSE "idle"

\* Lines 320-323: close the file if it is open; shutdown returns (and the
\* bookkeeping of the call is cleared).
sd_close(t) ==
    /\ Alive
    /\ pc[t] = "sd_close"
    /\ log_file_open' = FALSE
    /\ sd_mark' = [sd_mark EXCEPT ![t] = 0]
    /\ sd_running' = [sd_running EXCEPT ![t] = FALSE]
    /\ Goto(t, Caller(t))
    /\ UNCHANGED <<pImpl, cfgVars, log_file_fail, fexists, fdata, log_queue,
                   queue_mutex, log_mutex, cv_waiting, should_stop, threadVars,
                   lm_ret, fl_ret, locVars, histVars, seq, ops, got, aborted,
                   threw>>
    /\ UNCHANGED <<fmtVars, apiVars>>

\* ------------------------------------------------------------ step groups
\* The steps inside logMessage, of any thread.
LogSteps == \E p \in Procs : lm_push(p) \/ lm_notify(p)

\* The steps inside initialize; the file system lets the log file be opened.
InitSteps == \E t \in Threads : init_open(t, TRUE) \/ init_start(t) \/ boot(t)

\* The worker's loop and the write step.
WorkerSteps == w_outer \/ w_lock \/ w_block \/ w_relock \/ w_iolock \/ w_write

\* Rotation in which no file system operation fails.
RotateSteps == w_rotate(-1, TRUE) \/ w_unlockio

\* The steps inside flush.
FlushSteps == \E t \in Threads : fl_lock(t) \/ fl_block(t) \/ fl_iolock(t)

\* The timeout of a flush wait expires.
Timeout == \E t \in Threads : fl_timeout(t)

\* The steps of shutdown after its flush.
ShutdownSteps ==
    \E t \in Threads : sd_stop(t) \/ sd_notify(t) \/ sd_join(t) \/ sd_joining(t) \/ sd_close(t)

Spurious == \E p \in Procs : spurious(p)

\* Every step that continues a call already started, or the worker.
Internal ==
    LogSteps \/ InitSteps \/ WorkerSteps \/ RotateSteps \/ FlushSteps
    \/ Timeout \/ ShutdownSteps

\* ------------------------------------------------------- specifications
\* initialize has been called by t and has returned.
Initialized(t) ==
    /\ pImpl
    /\ i_k[t] > BootCount
    /\ pc[t] \notin {"init_open", "init_start", "boot"}
    /\ ~(pc[t] \in {"lm_push", "lm_notify"} /\ lm_ret[t] = "boot")

\* One client thread makes any calls in any order, from construction on
\* (the lazy path of log included): the engine in every state of its life.
Init ==
    /\ Constructed
    /\ fmt_call = NoCall
    /\ ops = [t \in Threads |-> IF t = "t1" THEN MaxOps ELSE 0]

Calls ==
    \E t \in Threads :
        \/ \E tg \in {FILE, BOTH} : initialize(t, DEBUG, tg, 1, 2)
        \/ \E l \in {DEBUG, WARN} : log(t, l, 2) \/ setLogLevel(t, l)
        \/ getLogLevel(t)
        \/ flush(t)
        \/ shutdown(t)

Next == Calls \/ Internal \/ Spurious

Spec == Init /\ [][Next]_vars

\* Two threads call concurrently once t1 has initialised the engine.
ConcInit ==
    /\ Constructed
    /\ fmt_call = NoCall
    /\ ops = [t \in Threads |-> IF t = "t1" THEN ConcOps + 1 ELSE ConcOps]

\* Threshold changes racing with log calls, console target.
LevelCalls ==
    \/ ~pImpl /\ initialize("t1", INFO, CONSOLE, 1, 2)
    \/ /\ Initialized("t1")
       /\ \E t \in Threads : \E l \in {INFO, WARN} : log(t, l, 2) \/ setLogLevel(t, l)

LevelNext == LevelCalls \/ LogSteps \/ InitSteps \/ WorkerSteps \/ Spurious

SpecLevel == ConcInit /\ [][LevelNext]_vars

\* A line left in the log file by an earlier run of the program.
OldLine == [p |-> "old", n |-> 0, lvl |-> INFO, len |-> 2, below |-> FALSE]

\* The two threads start in a directory without log files.
FileInit == ConcInit

\* Two producers with console and file targets and a ceiling of one unit:
\* rotation, flush and a raised threshold interleave with the log calls.
FileCalls ==
    \/ ~pImpl /\ initialize("t1", INFO, BOTH, 1, 2)
    \/ /\ Initialized("t1")
       /\ \E t \in Threads :
            \/ \E n \in {1, 2} : log(t, INFO, n)
            \/ flush(t)
            \/ setLogLevel(t, WARN)

FileNext ==
    FileCalls \/ LogSteps \/ InitSteps \/ WorkerSteps \/ RotateSteps
    \/ FlushSteps \/ Timeout \/ Spurious

SpecFile == FileInit /\ [][FileNext]_vars

\* log, flush and shutdown from two threads.
StopCalls ==
    \/ ~pImpl /\ initialize("t1", INFO, CONSOLE, 1, 2)
    \/ /\ Initialized("t1")
       /\ \E t \in Threads : log(t, INFO, 2) \/ flush(t) \/ shutdown(t)

StopNext ==
    StopCalls \/ LogSteps \/ InitSteps \/ WorkerSteps \/ FlushSteps \/ Timeout
    \/ ShutdownSteps \/ Spurious

SpecStop == ConcInit /\ [][StopNext]_vars

\* ------------------------------------------------------- fair scheduling
\* The steps of a caller thread inside a call; the expiry of its timed wait
\* is one of them.
ThreadRun(t) ==
    \/ lm_push(t) \/ lm_notify(t)
    \/ init_open(t, TRUE) \/ init_start(t) \/ boot(t)
    \/ fl_lock(t) \/ fl_block(t) \/ fl_iolock(t) \/ fl_timeout(t)
    \/ sd_stop(t) \/ sd_notify(t) \/ sd_join(t) \/ sd_joining(t) \/ sd_close(t)

\* The steps of the worker thread.
WorkerRun == WorkerSteps \/ RotateSteps \/ lm_push(W) \/ lm_notify(W)

\* Every thread that can take a step again and again does take one (fair
\* scheduler, fair mutexes).  Nothing forces a new call or a spurious wake-up.
Fairness == SF_vars(WorkerRun) /\ \A t \in Threads : SF_vars(ThreadRun(t))

\* Calls each thread makes after initialize in the fair specifications.
LiveOps == 1

LiveInit ==
    /\ Constructed
    /\ fmt_call = NoCall
    /\ ops = [t \in Threads |-> IF t = "t1" THEN LiveOps + 1 ELSE LiveOps]

\* A Running engine: t1 logs, t2 flushes; nobody shuts down.
FairLogCalls ==
    \/ ~pImpl /\ initialize("t1", INFO, CONSOLE, 1, 2)
    \/ Initialized("t1") /\ (log("t1", INFO, 2) \/ flush("t2"))

FairLogNext ==
    FairLogCalls \/ LogSteps \/ InitSteps \/ WorkerSteps \/ FlushSteps
    \/ Timeout \/ Spurious

FairLog == LiveInit /\ [][FairLogNext]_vars /\ Fairness

\* t1 initialises and shuts down; no log call is made.
FairStopCalls ==
    \/ ~pImpl /\ initialize("t1", INFO, CONSOLE, 1, 2)
    \/ Initialized("t1") /\ shutdown("t1")

FairStopNext ==
    FairStopCalls \/ LogSteps \/ InitSteps \/ WorkerSteps \/ FlushSteps
    \/ Timeout \/ ShutdownSteps \/ Spurious

FairStop == LiveInit /\ [][FairStopNext]_vars /\ Fairness

\* ----------------------------------------------------------------- claims
Range(q) == {q[i] : i \in DOMAIN q}
NoneBelow(q) == \A i \in DOMAIN q : ~q[i].below
Last(q) == q[Len(q)]

C2_AcceptedEventuallyWritten ==
    (Accepted > Len(handed)) ~> (Accepted = Len(handed))

\* Per producer, the lines of s appear in the order of the producer's calls.
Ordered(s) ==
    \A i, j \in DOMAIN s : (i < j /\ s[i].p = s[j].p) => s[i].n < s[j].n

\* C3: for every producer the lines that reach the console and the lines
\* that reach the file are in the order of that producer's log calls, under
\* any interleaving with the other producer, setLogLevel, flush and rotation.
C3_PerProducerOrder ==
    /\ Ordered(console)
    /\ Ordered(fileWritten)
    /\ \A i \in Slots : Ordered(fdata[i])

\* C3 witness: the two producers' lines alternate on the console and in the
\* lines written to the file, and the file has been rotated.
C3_Witness ==
    /\ 1 \in fexists
    /\ \E i, j, k \in DOMAIN fileWritten :
          /\ i < j /\ j < k
          /\ fileWritten[i].p = "t2" /\ fileWritten[j].p = "t1" /\ fileWritten[k].p = "t2"
          /\ fileWritten[j].n > BootCount
    /\ Len(console) = Len(fileWritten)

\* The worker's loop ends only with the stop flag set and the queue empty.
WorkerExitsDrained ==
    [][(w_outer /\ pc'[W] = "w_done") => (should_stop /\ log_queue = <<>>)]_vars

\* C4 as stated: the worker's loop ends only with the stop flag set and the
\* queue empty, and when any shutdown call returns, every line accepted
\* before the call has been handed to the write step.
C4_Original ==
    /\ WorkerExitsDrained
    /\ [][\A t \in Threads : sd_close(t) => Len(handed) >= sd_mark[t]]_vars

\* C4 amended: the worker's loop ends only with the stop flag set and the
\* queue empty, and when a shutdown call made on a Running engine (worker
\* started, stop flag not yet set) returns, every line accepted before the
\* call has been handed to the write step.
C4_DrainThenStop ==
    /\ WorkerExitsDrained
    /\ [][\A t \in Threads :
            (sd_close(t) /\ sd_running[t]) => Len(handed) >= sd_mark[t]]_vars

\* C4 witness: a shutdown called on the Running engine is about to return; a
\* line logged after initialize had been accepted before it was called.
C4_Witness ==
    \E t \in Threads :
        /\ pc[t] = "sd_close"
        /\ sd_running[t]
        /\ sd_mark[t] > BootCount
        /\ pc[W] = "w_done"

\* The thread is inside shutdown (its flush included).
InShutdown(t) ==
    \/ pc[t] \in {"sd_stop", "sd_notify", "sd_join", "sd_joining", "sd_close"}
    \/ pc[t] \in {"fl_lock", "fl_block", "fl_waiting", "fl_woken", "fl_iolock"}
       /\ fl_ret[t] = "sd_stop"

\* C5: under fair scheduling, with no further log calls, a shutdown call on
\* a Running engine eventually returns.
C5_ShutdownReturns ==
    \A t \in Threads : InShutdown(t) ~> (pc[t] = "idle")

\* C6: a shutdown call on an engine whose worker has been joined goes
\* straight to the close step: it does not wait in flush, set the stop flag,
\* notify or join, and raises no error; and the close step on a closed file
\* changes nothing of the file and returns.
C6_ShutdownIdempotent ==
    [][\A t \in Threads :
         /\ (shutdown(t) /\ pImpl /\ pc[W] = "w_done" /\ ~joinable)
            => /\ pc'[t] = "sd_close"
               /\ UNCHANGED <<should_stop, cv_waiting, queue_mutex, log_mutex,
                              threadVars, fileVars, aborted, threw>>
         /\ (sd_close(t) /\ ~log_file_open)
            => /\ pc'[t] = "idle"
               /\ UNCHANGED <<fileVars, aborted, threw>>]_vars

\* C6 witness: a second shutdown is at its close step: the worker has ended
\* and been joined, the file the engine had opened is closed.
C6_Witness ==
    /\ pc["t1"] = "sd_close"
    /\ ~sd_running["t1"]
    /\ pc[W] = "w_done"
    /\ ~joinable
    /\ should_stop
    /\ ~log_file_open
    /\ 0 \in fexists

C8_SetThenGet ==
    [][\A t \in Threads, l \in LogLevel : setLogLevel(t, l) => LevelRead' = l]_vars

\* C9: setLogLevel changes nothing but the threshold; a queued line stays
\* queued until the worker takes it, and the write step writes the line it
\* was handed whatever the threshold is by then; no line that was rejected
\* is ever handed to the write step.
C9_SetLevelFrame ==
    /\ [][\A t \in Threads, l \in LogLevel :
            setLogLevel(t, l)
            => UNCHANGED <<pImpl, log_target, max_file_size_bytes,
                           max_backup_files, fileVars, log_queue, queue_mutex,
                           log_mutex, cv_waiting, should_stop, threadVars,
                           ctlVars, locVars, histVars, seq>>]_vars
    /\ [][Range(log_queue) \subseteq Range(log_queue') \cup {wmsg'}]_vars
    /\ [][w_write => /\ handed' = Append(handed, wmsg)
                     /\ ToConsole(log_target) => console' = Append(console, wmsg)]_vars
    /\ []NoneBelow(handed)

\* C9 witness: the worker is about to write a line whose level is below the
\* threshold, which was raised after the line was accepted.
C9_Witness ==
    /\ pc[W] = "w_write"
    /\ ~wmsg.below
    /\ wmsg.lvl < current_log_level
    /\ ToConsole(log_target)

\* C10: the active file never exceeds the ceiling by more than the length
\* of the record written last, and outside a rotation it is below the
\* ceiling: the size is checked after every write and the file rotated
\* before the next one.
C10_SizeWithinCeiling ==
    /\ fdata[0] # <<>> => FileSize(0) <= max_file_size_bytes + Last(fdata[0]).len
    /\ pc[W] # "w_rotate" => FileSize(0) < max_file_size_bytes

\* C10 witness: a write has taken the file over the ceiling and the worker is
\* about to rotate it, after an earlier rotation.
C10_Witness ==
    /\ pc[W] = "w_rotate"
    /\ FileSize(0) > max_file_size_bytes
    /\ 1 \in fexists
    /\ log_file_open

\* ------------------------------------------------- rotation, backup chain
\* One thread initialises with the file target, a ceiling of one unit and
\* any backup count, then logs records that each take the file over the
\* ceiling.
BackupInit ==
    /\ Constructed
    /\ fmt_call = NoCall
    /\ ops = [t \in Threads |-> IF t = "t1" THEN MaxOps ELSE 0]

BackupCalls ==
    \/ ~pImpl /\ \E nb \in 0..MaxSlot : initialize("t1", INFO, FILE, 1, nb)
    \/ Initialized("t1") /\ log("t1", INFO, 2)

BackupNext == BackupCalls \/ LogSteps \/ InitSteps \/ WorkerSteps \/ RotateSteps \/ Spurious

SpecBackups == BackupInit /\ [][BackupNext]_vars

\* The backup files path.k that exist.
Backups == fexists \ {0}

\* Rotations so far: the worker calls logMessage once in every rotateLogFile.
Rotations == seq[W]

\* C11: for every backup count N, N = 0 and N = 1 included, the number of
\* backup files path.k that exist never exceeds N.
C11_BackupsWithinCount ==
    pImpl => Cardinality(Backups) <= max_backup_files

\* The lines of slots k, k-1, .. 1 and of the active file, oldest first.
RECURSIVE ChainLines(_)
ChainLines(k) == IF k = 0 THEN fdata[0] ELSE fdata[k] \o ChainLines(k - 1)

\* s is a suffix of q.
IsSuffix(s, q) ==
    /\ Len(s) <= Len(q)
    /\ \A i \in 1..Len(s) : s[i] = q[Len(q) - Len(s) + i]

\* C12: after a successful rotation path.1 holds the file just rotated out;
\* the file that was path.1 before is at path.2 when the backup count is at
\* least 2, and is deleted only when the backup count is 1.
C12_ShiftToSecond ==
    [][w_rotate(-1, TRUE)
       => /\ 1 \in fexists' /\ fdata'[1] = fdata[0]
          /\ (1 \in fexists /\ max_backup_files >= 2)
             => (2 \in fexists' /\ fdata'[2] = fdata[1])
          /\ (1 \in fexists /\ max_backup_files = 1) => 2 \notin fexists']_vars

\* C13: after at least N rotations with backup count N >= 1 the files
\* path.1 .. path.N all exist and hold, oldest at path.N, the N files
\* rotated out most recently.
C13_ChainComplete ==
    (pImpl /\ max_backup_files >= 1 /\ Rotations >= max_backup_files
     /\ max_backup_files <= MaxSlot)
    => /\ \A i \in 1..max_backup_files : i \in fexists /\ fdata[i] # <<>>
       /\ IsSuffix(ChainLines(max_backup_files), fileWritten)

\* The scenario of C14: records of one unit each under a ceiling of five
\* units with two backups, into a file that does not exist yet.
ScenarioRecords == 6

ScenarioInit ==
    /\ Constructed
    /\ fmt_call = NoCall
    /\ ops = [t \in Threads |-> IF t = "t1" THEN ScenarioRecords + 1 ELSE 0]

ScenarioCalls ==
    \/ ~pImpl /\ initialize("t1", INFO, FILE, 5, 2)
    \/ Initialized("t1") /\ log("t1", INFO, MiB)

ScenarioNext ==
    ScenarioCalls \/ LogSteps \/ InitSteps \/ WorkerSteps \/ RotateSteps \/ Spurious

SpecScenario == ScenarioInit /\ [][ScenarioNext]_vars

\* The records of the caller (not the logger's own) written to the file.
CallerRecords ==
    {i \in DOMAIN fileWritten : fileWritten[i].p = "t1" /\ fileWritten[i].n > BootCount}

\* C14: once the six records of the scenario are in the file, exactly one
\* rotation has occurred and no other is due, path.1 holds the file rotated
\* out, the active file holds everything written since, path.2 does not
\* exist.
C14_ScenarioOneRotation ==
    Cardinality(CallerRecords) = ScenarioRecords
    => /\ Rotations = 1
       /\ pc[W] # "w_rotate"
       /\ fexists = {0, 1}
       /\ fdata[1] # <<>>
       /\ fdata[1] \o fdata[0] = fileWritten

\* C14 witness: the six records are written, the last of them to the active
\* file after the rotation.
C14_Witness ==
    /\ Cardinality(CallerRecords) = ScenarioRecords
    /\ fdata[0] # <<>>
    /\ Last(fdata[0]).n = BootCount + ScenarioRecords
    /\ 1 \in fexists

\* C15: no thread holds queue_mutex while it writes to a target, flushes the
\* file or waits for log_mutex.
C15_NoQueueLockDuringIO ==
    \A p \in Procs :
        queue_mutex = p
        => pc[p] \notin {"fl_iolock", "w_iolock", "w_write", "w_rotate", "w_unlockio"}

\* C16: for any sequence of initialize, log, flush and shutdown calls the
\* process is never aborted: initialize on a Running engine starts no second
\* worker over the first.
C16_SingleWorkerNoAbort == ~aborted

\* ------------------------------------------------- lazy initialisation
\* One thread uses the Logger without ever calling initialize.
LazyCalls ==
    \/ \E l \in {DEBUG, WARN} : log("t1", l, 2)
    \/ setLogLevel("t1", DEBUG)
    \/ flush("t1")

LazyNext ==
    LazyCalls \/ LogSteps \/ InitSteps \/ WorkerSteps \/ FlushSteps \/ Timeout
    \/ Spurious

SpecLazy == Init /\ [][LazyNext]_vars

\* C17: a log call on an engine that does not exist yet configures it with
\* threshold INFO and the console as only target, no file is ever opened,
\* the worker is started, and the record of the call is then filtered under
\* that threshold: at INFO or above it goes on to the queue and from there
\* to the console, below INFO it is dropped.
C17_LazyDefaults ==
    /\ [][\A t \in Threads, l \in LogLevel, n \in 1..2 :
            (~pImpl /\ log(t, l, n))
            => /\ pImpl'
               /\ current_log_level' = INFO
               /\ log_target' = CONSOLE
               /\ pc'[t] = "init_open"
               /\ UNCHANGED log_queue]_vars
    /\ [](~log_file_open /\ fexists = {})
    /\ [][\A t \in Threads :
            init_start(t) => (joinable' /\ pc'[W] = "w_outer" /\ ~aborted')]_vars
    /\ [][\A t \in Threads :
            (boot(t) /\ i_k[t] > BootCount /\ carg[t] # NoArg)
            => IF carg[t].lvl >= INFO
               THEN pc'[t] = "lm_push" /\ arg'[t].lvl = carg[t].lvl
               ELSE pc'[t] = "idle" /\ UNCHANGED log_queue]_vars
    /\ [](/\ console = handed
          /\ \A i \in DOMAIN console :
               (console[i].p = "t1" /\ console[i].n = BootCount + 1)
               => console[i].lvl >= INFO)

\* C17 witness: the record of the first, self-initialising log call, made at
\* WARN, is on the console after the three records of initialize; no file
\* exists.
C17_Witness ==
    /\ pImpl
    /\ log_target = CONSOLE
    /\ fexists = {}
    /\ \E i \in DOMAIN console :
          console[i].p = "t1" /\ console[i].n = BootCount + 1 /\ console[i].lvl = WARN

\* ------------------------------------------------- open failure
\* The steps inside initialize when the file system refuses to open the log
\* file (or to create its directory).
InitFailSteps == \E t \in Threads : init_open(t, FALSE) \/ init_start(t) \/ boot(t)

\* Console and file targets configured, the file cannot be opened; two
\* threads log and flush.
OpenFailCalls ==
    \/ ~pImpl /\ initialize("t1", INFO, BOTH, 1, 2)
    \/ /\ Initialized("t1")
       /\ \E t \in Threads : log(t, INFO, 2) \/ flush(t)

OpenFailNext ==
    OpenFailCalls \/ LogSteps \/ InitFailSteps \/ WorkerSteps \/ FlushSteps
    \/ Timeout \/ Spurious

SpecOpenFail == ConcInit /\ [][OpenFailNext]_vars

\* C18: when the file cannot be opened, initialize goes on and returns with
\* the worker running and the target setting as configured, nothing is
\* thrown and the process is not aborted, and every line handed to the write
\* step is written to the console (and none to the file).
C18_OpenFailureNotFatal ==
    /\ [][\A t \in Threads :
            init_open(t, FALSE)
            => /\ pc'[t] = "init_start"
               /\ ~log_file_open'
               /\ UNCHANGED <<log_target, aborted, threw>>]_vars
    /\ [](Initialized("t1")
          => /\ joinable /\ pc[W] \notin {"none", "w_done"}
             /\ log_target = BOTH
             /\ ~log_file_open)
    /\ [](~aborted /\ ~threw)
    /\ [](console = handed /\ fileWritten = <<>>)

\* C18 witness: the open failed, initialize has returned, and a record t2
\* logged afterwards is on the console.
C18_Witness ==
    /\ Initialized("t1")
    /\ log_target = BOTH
    /\ ~log_file_open
    /\ log_file_fail
    /\ \E i \in DOMAIN console : console[i].p = "t2"

\* ------------------------------------------------- rotation failure
\* Rotations during which a file system operation may fail.
MaxFail == 2

\* Rotation in which the rename of the active file (0) or the operation on
\* the first backup (1) may throw.
RotateFailSteps ==
    \/ Rotations < MaxFail /\ \E f \in 0..1 : w_rotate(f, TRUE)
    \/ w_rotate(-1, TRUE)
    \/ w_unlockio

RotFailCalls ==
    \/ ~pImpl /\ initialize("t1", INFO, FILE, 1, 2)
    \/ Initialized("t1") /\ \E t \in Threads : log(t, INFO, 2)

RotFailNext ==
    RotFailCalls \/ LogSteps \/ InitSteps \/ WorkerSteps \/ RotateFailSteps
    \/ Spurious

SpecRotFail == ConcInit /\ [][RotFailNext]_vars

\* C19: a rotation either moves the active file to path.1 or, when one of
\* its operations fails, leaves the active file as it is; in both cases the
\* path is reopened, nothing is thrown, the queue and the lines handed so
\* far are untouched and the worker continues; a failure of the rename, or
\* of the operation on an existing backup, abandons the rotation; every
\* later file write appends to the active file; the worker enters a rotation
\* only from a file write; a queued line leaves the queue only into the
\* worker's hands, which hands it to the write step.
C19_RotationFailureSwallowed ==
    /\ [][\A f \in -1..1 :
            w_rotate(f, TRUE)
            => /\ \/ fdata'[0] = fdata[0]
                  \/ fdata'[1] = fdata[0] /\ fdata'[0] = <<>>
               /\ (f = 0 \/ (f \in fexists /\ f < max_backup_files))
                  => (fdata'[0] = fdata[0] /\ fdata[0] # <<>>)
               /\ log_file_open' /\ ~log_file_fail' /\ 0 \in fexists'
               /\ pc'[W] \in {"lm_push", "w_unlockio"}
               /\ UNCHANGED <<log_queue, handed, aborted, threw>>]_vars
    /\ [][(w_write /\ ToFile(log_target, log_file_open) /\ ~log_file_fail)
          => fdata'[0] = Append(fdata[0], wmsg)]_vars
    /\ [][(pc'[W] = "w_rotate" /\ pc[W] # "w_rotate") => w_write]_vars
    /\ [][Range(log_queue) \subseteq Range(log_queue') \cup {wmsg'}]_vars
    /\ [][w_write => handed' = Append(handed, wmsg)]_vars

\* C19 witness: after an abandoned rotation a record has been appended to the
\* active file, which is over the ceiling by more than that record.
C19_Witness ==
    /\ log_file_open
    /\ fdata[0] # <<>>
    /\ FileSize(0) > max_file_size_bytes + Last(fdata[0]).len
    /\ Rotations >= 1
    /\ pc[W] = "w_rotate"

\* ------------------------------------- formatLogMessage text (196-211)
\* Strings are sequences of one-character strings.
MsWidth == 3
LevelWidth == 8
ModuleWidth == 15

DigitChars == <<"0", "1", "2", "3", "4", "5", "6", "7", "8", "9">>

\* operator<< of a non-negative integer, before padding
RECURSIVE Decimal(_)
Decimal(n) ==
    IF n < 10 THEN <<DigitChars[n + 1]>>
    ELSE Decimal(n \div 10) \o <<DigitChars[(n % 10) + 1]>>

Fill(c, k) == [i \in 1..k |-> c]

\* A std::stringstream: the characters so far, the fill character and the
\* field width of the next insertion.
NewStream == [str |-> <<>>, fill |-> " ", width |-> 0]

\* std::setfill(c): stays in force until changed.
SetFill(ss, c) == [ss EXCEPT !.fill = c]

\* std::setw(n): applies to the next insertion only.
SetW(ss, n) == [ss EXCEPT !.width = n]

\* Padding to the left of the text, and to its right.
PadLeft(s, w, c) == IF Len(s) < w THEN Fill(c, w - Len(s)) \o s ELSE s
PadRight(s, w, c) == IF Len(s) < w THEN s \o Fill(c, w - Len(s)) ELSE s

\* ss << s: adjustfield is never set, so the text is right-adjusted: the
\* fill characters come first; width(0) afterwards.
Insert(ss, s) ==
    [ss EXCEPT !.str = @ \o PadLeft(s, ss.width, ss.fill), !.width = 0]

\* std::put_time(tm, "%Y-%m-%d %H:%M:%S")
put_time(tm) ==
    PadLeft(Decimal(tm.year), 4, "0") \o <<"-">> \o
    PadLeft(Decimal(tm.mon), 2, "0") \o <<"-">> \o
    PadLeft(Decimal(tm.mday), 2, "0") \o <<" ">> \o
    PadLeft(Decimal(tm.hour), 2, "0") \o <<":">> \o
    PadLeft(Decimal(tm.min), 2, "0") \o <<":">> \o
    PadLeft(Decimal(tm.sec), 2, "0")

\* Lines 326-336.
logLevelToString(level) ==
    CASE level = TRACE -> <<"T", "R", "A", "C", "E">>
      [] level = DEBUG -> <<"D", "E", "B", "U", "G">>
      [] level = INFO -> <<"I", "N", "F", "O">>
      [] level = WARN -> <<"W", "A", "R", "N">>
      [] level = ERROR -> <<"E", "R", "R", "O", "R">>
      [] level = CRITICAL -> <<"C", "R", "I", "T", "I", "C", "A", "L">>
      [] OTHER -> <<"U", "N", "K", "N", "O", "W", "N">>

\* Lines 202-210, one definition per statement.
FormatTime(c) == Insert(NewStream, put_time(c.tm))
FormatMs(c) ==
    Insert(SetW(SetFill(Insert(FormatTime(c), <<".">>), "0"), MsWidth),
           Decimal(c.ms))
FormatThread(c) ==
    Insert(Insert(Insert(FormatMs(c), <<" ", "[">>), Decimal(c.tid)), <<"]">>)
FormatLevel(c) ==
    Insert(Insert(SetW(Insert(FormatThread(c), <<" ", "[">>), LevelWidth),
                  logLevelToString(c.level)), <<"]">>)
FormatModule(c) ==
    Insert(Insert(SetW(Insert(FormatLevel(c), <<" ", "[">>), ModuleWidth),
                  c.module), <<"]", " ">>)
formatLogMessageText(c) == Insert(FormatModule(c), c.message).str

\* Module names of the repository's own calls, and one of full width.
FormatModules ==
    { <<"L", "O", "G", "G", "E", "R">>,
      <<"C", "A", "M", "E", "R", "A">>,
      <<"P", "E", "R", "F", "O", "R", "M", "A", "N", "C", "E">>,
      <<"M", "O", "D", "U", "L", "E", "_", "1", "5", "_", "C", "H", "A", "R", "S">> }

FormatTimes ==
    { [year |-> 2024, mon |-> 1, mday |-> 5, hour |-> 9, min |-> 3, sec |-> 7],
      [year |-> 2026, mon |-> 11, mday |-> 30, hour |-> 23, min |-> 59, sec |-> 58] }

FormatInputs ==
    [level : LogLevel, module : FormatModules, message : {<<>>, <<"o", "k">>},
     tm : FormatTimes, ms : {0, 7, 45, 999}, tid : {1, 140245}]

\* One call of formatLogMessage with its inputs drawn.
FormatInit ==
    /\ Constructed
    /\ ops = [t \in Threads |-> 0]
    /\ fmt_call \in FormatInputs

\* The call returns ss.str().
format ==
    /\ fmt_call # NoCall
    /\ fmt_str = <<>>
    /\ fmt_str' = formatLogMessageText(fmt_call)
    /\ UNCHANGED <<pImpl, cfgVars, fileVars, log_queue, queue_mutex, log_mutex,
                   cv_waiting, should_stop, threadVars, ctlVars, locVars,
                   histVars, seq, envVars, fmt_call, apiVars>>

FormatNext == format

SpecFormat == FormatInit /\ [][FormatNext]_vars

\* The line as documented: timestamp with milliseconds, thread id, level
\* name padded on the right with spaces to LevelWidth, module name padded on
\* the right with spaces to ModuleWidth, message.
DocumentedLine(c) ==
    put_time(c.tm) \o <<".">> \o PadLeft(Decimal(c.ms), MsWidth, "0")
    \o <<" ", "[">> \o Decimal(c.tid) \o <<"]">>
    \o <<" ", "[">> \o PadRight(logLevelToString(c.level), LevelWidth, " ") \o <<"]">>
    \o <<" ", "[">> \o PadRight(c.module, ModuleWidth, " ") \o <<"]", " ">>
    \o c.message

\* C20: every formatted line has the fields timestamp, [thread-id], [LEVEL],
\* [module], message in this order, the level name right-padded with spaces
\* to width 8 and the module name right-padded with spaces to width 15.
C20_PaddedFields ==
    fmt_str # <<>> => fmt_str = DocumentedLine(fmt_call)

\* ------------- WebApiServer::handleLogLevelRequest (performance_monitor.hpp)
\* std::string::npos; npos + 1 wraps around to 0.
npos == -1

\* s.find(pat, from): the first index (from 0) at or after from where pat
\* occurs in s, npos if there is none.
Find(s, pat, from) ==
    LET at == {i \in from..(Len(s) - Len(pat)) :
                 \A k \in 1..Len(pat) : s[i + k] = pat[k]}
    IN IF at = {} THEN npos ELSE CHOOSE i \in at : \A j \in at : i <= j

\* s.substr(start, n)
Substr(s, start, n) ==
    [k \in 1..(IF n < Len(s) - start THEN n ELSE Len(s) - start) |-> s[start + k]]

Quote == <<"\"">>
KeyLevel == <<"\"", "l", "e", "v", "e", "l", "\"", ":">>

\* Lines 677-685: the text between the first two quotes after "level":, the
\* empty string when the key or one of the quotes is missing.
ParseLevel(body) ==
    LET pos == Find(body, KeyLevel, 0)
    IN IF pos = npos THEN <<>>
       ELSE LET start == Find(body, Quote, pos + 8)
                end == Find(body, Quote, start + 1)
            IN IF start # npos /\ end # npos
               THEN Substr(body, start + 1, end - start - 1)
               ELSE <<>>

\* A conversion whose default is the lowest level.
stringToLogLevelLow(str) ==
    IF \E l \in LogLevel : logLevelToString(l) = str /\ l # INFO
    THEN CHOOSE l \in LogLevel : logLevelToString(l) = str
    ELSE TRACE

\* WebApiServer::stringToLogLevel, lines 867-875.
stringToLogLevel(str) ==
    IF str = <<"T", "R", "A", "C", "E">> THEN TRACE
    ELSE IF str = <<"D", "E", "B", "U", "G">> THEN DEBUG
    ELSE IF str = <<"I", "N", "F", "O">> THEN INFO
    ELSE IF str = <<"W", "A", "R", "N">> THEN WARN
    ELSE IF str = <<"E", "R", "R", "O", "R">> THEN ERROR
    ELSE IF str = <<"C", "R", "I", "T", "I", "C", "A", "L">> THEN CRITICAL
    ELSE INFO

\* Request bodies: {"level": "X"}, {"level":"X"}, {"level": 3} and {}.
BodyText(b) ==
    CASE b.form = "spaced" ->
           <<"{">> \o KeyLevel \o <<" ">> \o Quote \o b.x \o Quote \o <<"}">>
      [] b.form = "tight" ->
           <<"{">> \o KeyLevel \o Quote \o b.x \o Quote \o <<"}">>
      [] b.form = "number" -> <<"{">> \o KeyLevel \o <<" ", "3", "}">>
      [] OTHER -> <<"{", "}">>

\* The level names, two names that are no level and the empty name.
ApiNames ==
    {logLevelToString(l) : l \in LogLevel}
    \cup {<<"V", "E", "R", "B", "O", "S", "E">>, <<"d", "e", "b", "u", "g">>, <<>>}

ApiBodies ==
    [form : {"spaced", "tight"}, x : ApiNames]
    \cup [form : {"number", "absent"}, x : {<<>>}]

\* Lines 672-687 of a POST: parse the body, convert, setLogLevel.
api_post(t, b) ==
    /\ Start(t)
    /\ api_req' = [method |-> "POST", body |-> BodyText(b)]
    /\ level_str' = ParseLevel(api_req'.body)
    /\ new_level' = stringToLogLevel(level_str')
    /\ current_log_level' = LevelAfterSet(new_level')
    /\ api_resp' = NoResp
    /\ Goto(t, "post_log")
    /\ UNCHANGED <<pImpl, log_target, max_file_size_bytes, max_backup_files,
                   fileVars, log_queue, queue_mutex, log_mutex, cv_waiting,
                   should_stop, threadVars, lm_ret, fl_ret, locVars, histVars,
                   seq, restEnv, fmtVars>>

ApiLogArg == [lvl |-> INFO, len |-> 2, below |-> FALSE]

\* Line 689: logger_->info(...), which is Logger::log (logger.hpp:68-74).
post_log(t) ==
    /\ Alive
    /\ pc[t] = "post_log"
    /\ IF ~pImpl
       THEN /\ pImpl' = TRUE
            /\ carg' = [carg EXCEPT ![t] = ApiLogArg]
            /\ Configure(LazyArg)
            /\ Goto(t, "init_open")
            /\ UNCHANGED <<seq, lm_ret, arg>>
       ELSE /\ LogMessage(t, ApiLogArg, Home(t))
            /\ UNCHANGED <<pImpl, cfgVars, carg>>
    /\ UNCHANGED <<fileVars, log_queue, queue_mutex, log_mutex, cv_waiting,
                   should_stop, threadVars, fl_ret, i_k, f_timedout, wmsg,
                   histVars, envVars, fmtVars, apiVars>>

\* Lines 691-697: the response of a POST, always 200, echoing level_str.
post_reply(t) ==
    /\ Alive
    /\ pc[t] = "post_reply"
    /\ api_resp' = [status |-> 200, level |-> level_str]
    /\ api_req' = NoReq
    /\ Goto(t, "idle")
    /\ UNCHANGED <<pImpl, cfgVars, fileVars, log_queue, queue_mutex, log_mutex,
                   cv_waiting, should_stop, threadVars, lm_ret, fl_ret,
                   locVars, histVars, seq, envVars, fmtVars, level_str,
                   new_level>>

\* Lines 660-671: GET answers with the name of getLogLevel().
api_get(t) ==
    /\ Start(t)
    /\ got' = [got EXCEPT ![t] = LevelRead]
    /\ api_resp' = [status |-> 200, level |-> logLevelToString(LevelRead)]
    /\ UNCHANGED <<pImpl, cfgVars, fileVars, log_queue, queue_mutex, log_mutex,
                   cv_waiting, should_stop, threadVars, ctlVars, locVars,
                   histVars, seq, sd_mark, sd_running, aborted, threw,
                   fmtVars, api_req, level_str, new_level>>

\* Line 700: any other method.
api_other(t) ==
    /\ Start(t)
    /\ api_resp' = [status |-> 400, level |-> <<>>]
    /\ UNCHANGED <<pImpl, cfgVars, fileVars, log_queue, queue_mutex, log_mutex,
                   cv_waiting, should_stop, threadVars, ctlVars, locVars,
                   histVars, seq, restEnv, fmtVars, api_req, level_str,
                   new_level>>

ApiSteps == \E t \in Threads : post_log(t) \/ post_reply(t)

\* The server thread t1 serves requests; the engine was initialised at DEBUG
\* by main, or is initialised lazily by the handler's own record.
ApiCalls ==
    \/ ~pImpl /\ initialize("t1", DEBUG, CONSOLE, 1, 2)
    \/ \E b \in ApiBodies : api_post("t1", b)
    \/ api_get("t1")
    \/ api_other("t1")

ApiNext == ApiCalls \/ ApiSteps \/ LogSteps \/ InitSteps \/ WorkerSteps \/ Spurious

ApiOps == 3

ApiInit ==
    /\ Constructed
    /\ fmt_call = NoCall
    /\ ops = [t \in Threads |-> IF t = "t1" THEN ApiOps ELSE 0]

SpecApi == ApiInit /\ [][ApiNext]_vars

\* The level a body names: the level whose name is X, INFO when X is the
\* name of no level or the body has no X.
NamedLevel(b) ==
    IF b.form \in {"spaced", "tight"} /\ \E l \in LogLevel : logLevelToString(l) = b.x
    THEN CHOOSE l \in LogLevel : logLevelToString(l) = b.x
    ELSE INFO

\* C21: a POST with body {"level": X} calls setLogLevel with the level named
\* X, with INFO when X names no level or is absent; its response is never an
\* error; a GET reports the level in force (the threshold of the engine, INFO
\* while there is no engine).
C21_LevelEndpoint ==
    /\ [][\A b \in ApiBodies :
            api_post("t1", b)
            => /\ new_level' = NamedLevel(b)
               /\ pImpl => current_log_level' = NamedLevel(b)]_vars
    /\ [][post_reply("t1") => api_resp'.status = 200]_vars
    /\ [][api_get("t1")
          => /\ api_resp'.status = 200
             /\ api_resp'.level = logLevelToString(IF pImpl THEN current_log_level ELSE INFO)
             /\ UNCHANGED current_log_level]_vars

\* C21 witness: on an engine running at DEBUG a POST naming no level has
\* been answered with 200 and has set INFO, which the following GET reported.
C21_Witness ==
    /\ pImpl
    /\ level_str = <<"V", "E", "R", "B", "O", "S", "E">>
    /\ new_level = INFO
    /\ current_log_level = INFO
    /\ api_resp = [status |-> 200, level |-> <<"I", "N", "F", "O">>]
    /\ ops["t1"] = 0

\* ------------------------------------------------ initialize after shutdown
\* The calls t1 makes, in this order: initialize, log, shutdown, log (while
\* Stopped), initialize, log.
RestartOps == 6

RestartInit ==
    /\ Constructed
    /\ fmt_call = NoCall
    /\ ops = [t \in Threads |-> IF t = "t1" THEN RestartOps ELSE 0]

\* The engine after a completed shutdown.
Stopped == pImpl /\ ~joinable /\ should_stop /\ ~log_file_open

RestartCalls ==
    \/ /\ ops["t1"] = RestartOps
       /\ \E tg \in {FILE, BOTH} : initialize("t1", INFO, tg, DefaultSizeMb, 2)
    \/ ops["t1"] = RestartOps - 1 /\ log("t1", INFO, 2)
    \/ ops["t1"] = RestartOps - 2 /\ shutdown("t1")
    \/ ops["t1"] = RestartOps - 3 /\ Stopped /\ log("t1", INFO, 2)
    \/ /\ ops["t1"] = RestartOps - 4
       /\ Stopped
       /\ \E tg \in {FILE, BOTH} : initialize("t1", INFO, tg, DefaultSizeMb, 2)
    \/ ops["t1"] = RestartOps - 5 /\ log("t1", INFO, 2)

RestartNext ==
    RestartCalls \/ LogSteps \/ InitSteps \/ WorkerSteps \/ FlushSteps
    \/ Timeout \/ ShutdownSteps \/ Spurious

FairRestart == RestartInit /\ [][RestartNext]_vars /\ Fairness

\* t1 is inside or after its second initialize.
InRestart == ops["t1"] <= RestartOps - 5

\* C22: initialize on a Stopped engine is a cold start: it reopens the file
\* in append mode, clears the stop flag and starts the worker, which was not
\* running, without aborting; nothing written before is lost; and once t1
\* has returned from its last call, every line it logged, the one queued
\* while Stopped included, gets written to the file, in the order logged.
C22_ColdStartAfterShutdown ==
    /\ [][(InRestart /\ init_open("t1", TRUE))
          => /\ ~log_file_open /\ log_file_open' /\ ~log_file_fail'
             /\ fdata' = fdata
             /\ log_queue # <<>>]_vars
    /\ [][(InRestart /\ init_start("t1"))
          => /\ should_stop /\ ~should_stop'
             /\ pc[W] = "w_done" /\ pc'[W] = "w_outer"
             /\ ~joinable /\ joinable']_vars
    /\ [](~aborted /\ ~threw)
    /\ ((ops["t1"] = 0 /\ pc["t1"] = "idle")
        ~> (/\ log_queue = <<>>
            /\ Len(handed) = seq["t1"]
            /\ fileWritten = handed
            /\ fdata[0] = handed
            /\ \A i \in DOMAIN handed : handed[i].n = i))

\* C22 witness: after the restart the worker has written the line that was
\* queued while the engine was Stopped (t1's sixth) and the one logged after
\* the restart (its eleventh).
C22_Witness ==
    /\ ops["t1"] = 0
    /\ pc["t1"] = "idle"
    /\ joinable /\ ~should_stop /\ log_file_open
    /\ Len(fileWritten) = 11
    /\ fileWritten[6].len = 2
    /\ fileWritten[11].len = 2

\* ------------------------------------------------------ bootstrap records
\* t1 initialises with any target at DEBUG or INFO and then logs once.
BootOps == 2

BootInit ==
    /\ Constructed
    /\ fmt_call = NoCall
    /\ ops = [t \in Threads |-> IF t = "t1" THEN BootOps ELSE 0]

BootCalls ==
    \/ /\ ~pImpl
       /\ \E l \in {DEBUG, INFO}, tg \in LogTarget : initialize("t1", l, tg, 1, 2)
    \/ Initialized("t1") /\ log("t1", INFO, 2)

BootNext ==
    BootCalls \/ LogSteps \/ InitSteps \/ WorkerSteps \/ RotateSteps \/ Spurious

SpecBoot == BootInit /\ [][BootNext]_vars

\* C23: when initialize has returned, it has made exactly three logMessage
\* calls, whatever the target.
C23_ThreeBootRecords ==
    (Initialized("t1") /\ pc["t1"] = "idle" /\ ops["t1"] = BootOps - 1)
    => seq["t1"] = 3

\* C24: flush and the worker never deadlock: no thread in flush holds
\* queue_mutex and waits for log_mutex while the worker, inside rotation with
\* log_mutex, waits for queue_mutex to queue the rotation notice.
C24_NoFlushRotationDeadlock ==
    ~ \E t \in Threads :
        /\ pc[t] = "fl_iolock" /\ queue_mutex = t
        /\ pc[W] = "lm_push" /\ log_mutex = W


\* Every line pushed so far, in the order of the pushes as far as the worker
\* keeps it: the lines handed to the write step, the line the worker has
\* popped and not yet handed over, the lines still queued.
Pipeline == handed \o (IF wmsg = NoLine THEN <<>> ELSE <<wmsg>>) \o log_queue

\* C25: the worker writes the lines in exactly the order they were pushed,
\* each once: the sequence of lines written, in the worker's hands and queued
\* changes only by a push at its end (the rotation notices the worker pushes
\* included), no line occurs in it twice, and the console shows exactly the
\* lines handed to the write step, in that order.
C25_GlobalFifo ==
    /\ [][\/ Pipeline' = Pipeline
          \/ /\ Len(Pipeline') = Len(Pipeline) + 1
             /\ SubSeq(Pipeline', 1, Len(Pipeline)) = Pipeline]_vars
    /\ [](\A i, j \in DOMAIN Pipeline : Pipeline[i] = Pipeline[j] => i = j)
    /\ [](console = handed)

\* C25 witness: a rotation notice pushed by the worker has been written
\* between a line of t1 and a later line of t2, after a line of t2.
C25_Witness ==
    \E h, i, j, k \in DOMAIN console :
        /\ h < i /\ i < j /\ j < k
        /\ console[h].p = "t2"
        /\ console[i].p = "t1" /\ console[i].n > BootCount
        /\ console[j].p = W
        /\ console[k].p = "t2"

\* ------------------------------------------------- shutdown and the file
\* The file target with rotation; both threads log and shut down.
CloseCalls ==
    \/ ~pImpl /\ initialize("t1", INFO, FILE, 1, 2)
    \/ Initialized("t1") /\ \E t \in Threads : log(t, INFO, 2) \/ shutdown(t)

CloseNext ==
    CloseCalls \/ LogSteps \/ InitSteps \/ WorkerSteps \/ RotateSteps
    \/ FlushSteps \/ Timeout \/ ShutdownSteps \/ Spurious

SpecClose == ConcInit /\ [][CloseNext]_vars

WorkerRunning == pc[W] \notin {"none", "w_done"}

\* C26: shutdown takes its steps in the order flush, stop flag, wake-up,
\* join, close; the file is closed only once the worker has terminated, and
\* the worker, while it runs (writing or rotating), always has the file open;
\* this holds whichever thread calls shutdown.
C26_ShutdownOrder ==
    /\ [][\A t \in Threads :
            /\ (pc'[t] = "sd_stop" /\ pc[t] # "sd_stop") => fl_iolock(t)
            /\ (pc'[t] = "sd_notify" /\ pc[t] # "sd_notify") => sd_stop(t)
            /\ (pc'[t] = "sd_join" /\ pc[t] # "sd_join") => sd_notify(t)
            /\ (pc'[t] = "sd_joining" /\ pc[t] # "sd_joining") => sd_join(t)
            /\ (pc'[t] = "sd_close" /\ pc[t] # "sd_close")
               => (~joinable' /\ ~WorkerRunning)
            /\ sd_close(t) => (~joinable /\ ~WorkerRunning /\ ~log_file_open')]_vars
    /\ [](\A t \in Threads : pc[t] \in {"sd_notify", "sd_join", "sd_joining"} => should_stop)
    /\ [](WorkerRunning => log_file_open)
    /\ [][(~log_file_open /\ ~log_file_open')
          => UNCHANGED <<fdata, fexists, fileWritten>>]_vars

\* C26 witness: t2, which never logged, has shut the engine down after t1's
\* lines were written and the file rotated: worker terminated, file closed.
C26_Witness ==
    /\ seq["t2"] = 0
    /\ ops["t2"] < ConcOps
    /\ pc["t2"] = "idle"
    /\ seq["t1"] = BootCount + ConcOps
    /\ ~log_file_open /\ ~joinable /\ pc[W] = "w_done"
    /\ Len(fileWritten) > BootCount + ConcOps
    /\ ~threw

\* ----------------------------------------------- rotation notice, ceiling
\* Rotations followed in the specification of small ceilings.
MaxNotice == 3

\* Rotation, as long as fewer than MaxNotice rotations have been made.
NoticeSteps == (Rotations < MaxNotice /\ w_rotate(-1, TRUE)) \/ w_unlockio

\* t1 initialises with the file target and a ceiling of 0 or 1 MB, then logs.
CeilingCalls ==
    \/ ~pImpl /\ \E mb \in {0, 1} : initialize("t1", INFO, FILE, mb, 2)
    \/ Initialized("t1") /\ log("t1", INFO, 2)

CeilingNext ==
    CeilingCalls \/ LogSteps \/ InitSteps \/ WorkerSteps \/ NoticeSteps
    \/ Spurious

SpecCeiling == BackupInit /\ [][CeilingNext]_vars

\* C27: writing the rotation notice never itself triggers a rotation,
\* whatever the ceiling.
C27_NoticeNeverRotates ==
    [][(w_write /\ wmsg.p = W) => pc'[W] # "w_rotate"]_vars

\* ------------------------------------------- rotation that keeps failing
\* Every rotation fails at the rename of the active file.
RotateFailing == w_rotate(0, TRUE) \/ w_unlockio

\* t1 initialises with the file target and a ceiling of one unit and logs.
FailingCalls ==
    \/ ~pImpl /\ initialize("t1", INFO, FILE, 1, 2)
    \/ Initialized("t1") /\ log("t1", INFO, 2)

FailingNext ==
    FailingCalls \/ LogSteps \/ InitSteps \/ WorkerSteps \/ RotateFailing
    \/ Spurious

\* The worker keeps taking steps, those of a failing rotation included.
FailingFairness ==
    /\ SF_vars(WorkerSteps \/ RotateFailing \/ lm_push(W) \/ lm_notify(W))
    /\ \A t \in Threads : SF_vars(ThreadRun(t))

FairRotFail == LiveInit /\ [][FailingNext]_vars /\ FailingFairness

\* C28: once the producers have made their last call, the queue eventually
\* becomes empty and stays empty, even if every rotation fails.
C28_QueueDrains ==
    (ops["t1"] = 0 /\ pc["t1"] = "idle") ~> [](log_queue = <<>>)

\* C29: a file write is followed by a rotation only if it leaves the active
\* file larger than the ceiling; a write that leaves it at exactly the
\* ceiling, or below, does not rotate.
C29_RotateOnlyAboveCeiling ==
    [][(w_write /\ pc'[W] = "w_rotate")
       => SumLen(fdata'[0]) > max_file_size_bytes]_vars

\* ------------------------------------------------- backup shift, renames
\* The content of path.i left by an earlier run.
OldBackup(i) == <<[OldLine EXCEPT !.n = i]>>

\* Any of the log file and its backups may exist when the program starts,
\* left by an earlier run; the log file is then shorter than the ceiling.
ShiftInit ==
    /\ Process
    /\ fmt_call = NoCall
    /\ ops = [t \in Threads |-> IF t = "t1" THEN MaxOps ELSE 0]
    /\ \E ex \in SUBSET Slots :
         /\ fexists = ex
         /\ fdata = [i \in Slots |-> IF i \in ex THEN OldBackup(i) ELSE <<>>]

\* t1 initialises with the file target, a ceiling of one unit and a backup
\* count of at least two, then logs.
ShiftCalls ==
    \/ ~pImpl /\ \E nb \in 2..(MaxSlot + 1) : initialize("t1", INFO, FILE, 1, nb)
    \/ Initialized("t1") /\ log("t1", INFO, 2)

ShiftNext ==
    ShiftCalls \/ LogSteps \/ InitSteps \/ WorkerSteps \/ RotateSteps \/ Spurious

SpecShift ==
    /\ ShiftInit
    /\ [][ShiftNext]_vars

\* The names that exist when a rename of the loop of lines 266-277, run from
\* slot i downwards on directory d, or the rename of line 281, targets them.
RECURSIVE Clobbered(_, _, _)
Clobbered(d, i, nb) ==
    IF i >= 1
    THEN IF i \in d.ex
         THEN IF i = nb - 1
              THEN Clobbered([ex |-> d.ex \ {i}, dt |-> d.dt], i - 1, nb)
              ELSE (IF i + 1 \in d.ex THEN {i + 1} ELSE {})
                   \cup Clobbered([ex |-> (d.ex \ {i}) \cup {i + 1}, dt |-> d.dt],
                                  i - 1, nb)
         ELSE Clobbered(d, i - 1, nb)
    ELSE IF 0 \in d.ex /\ 1 \in d.ex THEN {1} ELSE {}

\* C30: in a rotation with N >= 2 no rename targets an existing name, the
\* only backup removed is path.(N-1), where the loop starts, every other
\* backup below it is afterwards found one slot higher with its content, the
\* active file is found at path.1, and the backups from path.N upwards are
\* untouched.
C30_ShiftOverwritesNothing ==
    [][(w_rotate(-1, TRUE) /\ max_backup_files >= 2)
       => /\ Clobbered([ex |-> fexists, dt |-> fdata],
                       RotateFrom(max_backup_files), max_backup_files) = {}
          /\ fdata'[1] = fdata[0] /\ 1 \in fexists'
          /\ \A i \in 1..MaxSlot :
               /\ (i < max_backup_files - 1 /\ i \in fexists)
                  => (i + 1 \in fexists' /\ fdata'[i + 1] = fdata[i])
               /\ i >= max_backup_files
                  => (fdata'[i] = fdata[i] /\ (i \in fexists' <=> i \in fexists))]_vars

\* C30 witness: with N = 4 and path.1, path.2 and path.3 left by an earlier
\* run, a rotation has moved path.1 and path.2 up and the active file to
\* path.1.
C30_Witness ==
    /\ max_backup_files = 4
    /\ Rotations = 1
    /\ fexists = {0, 1, 2, 3}
    /\ fdata[3] = OldBackup(2)
    /\ fdata[2] = OldBackup(1)
    /\ fdata[1] # <<>> /\ fdata[1][1].p = "t1"

\* ------------------------------------------------- file handle and locks
\* Thread t is at a step that uses log_file without taking log_mutex: the
\* open of initialize (lines 149-151, 171) or the close of shutdown (320-323).
FileAccessUnlocked(t) ==
    \/ pc[t] = "init_open" /\ log_target \in {FILE, BOTH}
    \/ pc[t] = "sd_close"

\* C31: while a worker is running no thread uses the file handle without
\* holding log_mutex.
C31_FileHandleUnderLock ==
    WorkerRunning => \A t \in Threads : ~FileAccessUnlocked(t)

\* --------------------------------------------- the threshold as a variable
\* current_log_level is declared as a plain LogLevel (line 118), not as an
\* atomic, and no lock is held at any of its accesses: a store and a load are
\* steps of their threads, each preceded by the state in which the thread is
\* about to make the access with nothing ordering it after the other's.

\* Logger::setLogLevel, line 80: pImpl is tested, the store of line 81 is next.
setLogLevelCall(t, level) ==
    /\ Start(t)
    /\ pImpl
    /\ carg' = [carg EXCEPT ![t] = [lvl |-> level, len |-> 0, below |-> FALSE]]
    /\ Goto(t, "sl_write")
    /\ UNCHANGED <<pImpl, cfgVars, fileVars, log_queue, queue_mutex, log_mutex,
                   cv_waiting, should_stop, threadVars, lm_ret, fl_ret, arg,
                   i_k, f_timedout, wmsg, histVars, seq, restEnv>>
    /\ UNCHANGED <<fmtVars, apiVars>>

\* The plain store of line 81.
sl_write(t) ==
    /\ Alive
    /\ pc[t] = "sl_write"
    /\ current_log_level' = carg[t].lvl
    /\ carg' = [carg EXCEPT ![t] = NoArg]
    /\ Goto(t, "idle")
    /\ UNCHANGED <<pImpl, log_target, max_file_size_bytes, max_backup_files,
                   fileVars, log_queue, queue_mutex, log_mutex, cv_waiting,
                   should_stop, threadVars, lm_ret, fl_ret, arg, i_k,
                   f_timedout, wmsg, histVars, seq, envVars>>
    /\ UNCHANGED <<fmtVars, apiVars>>

\* Logger::log, lines 69-73, on an existing engine: pImpl->logMessage is
\* entered, the load of line 182 is next.
logCall(t, level, len) ==
    /\ Start(t)
    /\ pImpl
    /\ carg' = [carg EXCEPT ![t] = [lvl |-> level, len |-> len, below |-> FALSE]]
    /\ Goto(t, "lm_read")
    /\ UNCHANGED <<pImpl, cfgVars, fileVars, log_queue, queue_mutex, log_mutex,
                   cv_waiting, should_stop, threadVars, lm_ret, fl_ret, arg,
                   i_k, f_timedout, wmsg, histVars, seq, restEnv>>
    /\ UNCHANGED <<fmtVars, apiVars>>

\* The values a plain load of current_log_level can yield: the stored value,
\* or, when a store by another thread is pending with nothing ordering the
\* two accesses, the value being stored as well.
LoadLevel(t) ==
    {current_log_level}
        \cup {carg[u].lvl : u \in {x \in Threads \ {t} : pc[x] = "sl_write"}}

\* logMessage, lines 182-186, with the load of line 182 as a step: got keeps
\* the threshold the call compared with.
lm_read(t) ==
    /\ Alive
    /\ pc[t] = "lm_read"
    /\ \E v \in LoadLevel(t) :
         /\ got' = [got EXCEPT ![t] = v]
         /\ seq' = [seq EXCEPT ![t] = Count(seq[t])]
         /\ lm_ret' = [lm_ret EXCEPT ![t] = "idle"]
         /\ IF BelowThreshold(carg[t].lvl, v)
            THEN /\ Goto(t, "idle")
                 /\ UNCHANGED arg
            ELSE /\ arg' = [arg EXCEPT ![t] = carg[t]]
                 /\ Goto(t, "lm_push")
    /\ carg' = [carg EXCEPT ![t] = NoArg]
    /\ UNCHANGED <<pImpl, cfgVars, fileVars, log_queue, queue_mutex, log_mutex,
                   cv_waiting, should_stop, threadVars, fl_ret, i_k,
                   f_timedout, wmsg, histVars, ops, sd_mark, sd_running,
                   aborted, threw>>
    /\ UNCHANGED <<fmtVars, apiVars>>

LevelAccess == \E t \in Threads : sl_write(t) \/ lm_read(t)

\* Two threads set the threshold and log on a running engine.
RaceCalls ==
    \/ ~pImpl /\ initialize("t1", INFO, CONSOLE, 1, 2)
    \/ /\ Initialized("t1")
       /\ \E t \in Threads : \E l \in {INFO, WARN} :
            logCall(t, l, 2) \/ setLogLevelCall(t, l)

RaceNext ==
    RaceCalls \/ LevelAccess \/ LogSteps \/ InitSteps \/ WorkerSteps \/ Spurious

SpecRace == ConcInit /\ [][RaceNext]_vars

\* C32: the store of setLogLevel and the load of a log call are never pending
\* at the same time with nothing ordering them (no lock is held by either
\* thread and the variable is not atomic).
C32_NoThresholdRace ==
    \A t, u \in Threads :
        ~(pc[t] = "sl_write" /\ pc[u] = "lm_read")

\* ------------------------------------------- rotation, content of the chain
\* Rotation in which, from the second rotation to rotation MaxFail + 1, the
\* operation on any slot may throw, and in which the reopen may fail.
ChainSteps ==
    \/ /\ Rotations >= 1 /\ Rotations <= MaxFail
       /\ \E f \in 0..MaxSlot : w_rotate(f, TRUE)
    \/ w_rotate(-1, TRUE)
    \/ w_rotate(-1, FALSE)
    \/ w_unlockio

\* t1 initialises with the file target, a ceiling of one unit and any backup
\* count, in an empty directory, then logs.
ChainCalls ==
    \/ ~pImpl /\ \E nb \in 0..(MaxSlot + 1) : initialize("t1", INFO, FILE, 1, nb)
    \/ Initialized("t1") /\ log("t1", INFO, 2)

ChainNext ==
    ChainCalls \/ LogSteps \/ InitSteps \/ WorkerSteps \/ ChainSteps \/ Spurious

SpecChain == BackupInit /\ [][ChainNext]_vars

\* The lines of the files that exist among path.k, .., path.1, path, in this
\* order.
RECURSIVE ExistingChain(_)
ExistingChain(k) ==
    (IF k \in fexists THEN fdata[k] ELSE <<>>)
        \o (IF k = 0 THEN <<>> ELSE ExistingChain(k - 1))

\* C33: the existing backups from the highest index down to path.1, followed
\* by the active file, hold a contiguous suffix, in write order, of the lines
\* written to the file target since initialize, failed rotations included.
C33_ChainIsSuffix ==
    IsSuffix(ExistingChain(MaxSlot), fileWritten)

\* A file that was at its ceiling before its last line was written: the
\* rotation due then was abandoned.
Overfull(k) ==
    /\ k \in fexists
    /\ fdata[k] # <<>>
    /\ FileSize(k) - Last(fdata[k]).len >= max_file_size_bytes

\* C33 witness: a backup exists beside the active file, the oldest lines have
\* been destroyed, and one of the files went through an abandoned rotation.
C33_Witness ==
    /\ {0, 1} \subseteq fexists
    /\ fdata[1] # <<>>
    /\ Len(ExistingChain(MaxSlot)) < Len(fileWritten)
    /\ \E k \in Slots : Overfull(k)

\* C34: the worker queues the record of a rotation only when the rotation
\* has renamed the active file to path.1; an abandoned rotation queues none.
C34_NoticeOnlyAfterRename ==
    [][(pc[W] = "w_rotate" /\ pc'[W] = "lm_push")
       => (1 \in fexists' /\ fdata'[1] = fdata[0] /\ fdata'[0] = <<>>)]_vars

\* C35: the worker's step that empties the queue wakes every thread blocked
\* in the wait of flush.
C35_DrainWakesFlush ==
    [][(log_queue # <<>> /\ log_queue' = <<>>)
       => \A t \in Threads :
            (pc[t] = "fl_waiting" /\ t \in cv_waiting) => t \notin cv_waiting']_vars

\* ------------------------------------------------- logging after shutdown
\* Both threads log at and below the threshold and shut down, with both
\* targets; initialize is called once.
AfterCalls ==
    \/ ~pImpl /\ initialize("t1", INFO, BOTH, 2, 2)
    \/ /\ Initialized("t1")
       /\ \E t \in Threads :
            \/ \E l \in {DEBUG, INFO} : log(t, l, 2)
            \/ shutdown(t)

AfterNext ==
    AfterCalls \/ LogSteps \/ InitSteps \/ WorkerSteps \/ RotateSteps
    \/ FlushSteps \/ Timeout \/ ShutdownSteps \/ Spurious

SpecAfter == ConcInit /\ [][AfterNext]_vars

\* q is a prefix of r.
IsPrefix(q, r) ==
    /\ Len(q) <= Len(r)
    /\ \A i \in 1..Len(q) : q[i] = r[i]

\* C36: a shutdown that returns normally leaves the worker terminated; from
\* then on, with no further initialize, a log call at or above the threshold
\* is accepted and its line is appended to the queue, a call below it is
\* dropped; the worker stays terminated, nothing is written to the console
\* or the file, and the queue only grows: the lines queued when the worker
\* made its last test of the queue, or later, stay queued.
C36_NoWriteAfterShutdown ==
    /\ [][\A t \in Threads : sd_close(t) => pc[W] = "w_done"]_vars
    /\ [][pc[W] = "w_done"
          => /\ pc'[W] = "w_done"
             /\ UNCHANGED <<console, fileWritten, fdata, handed, wmsg>>
             /\ IsPrefix(log_queue, log_queue')]_vars
    /\ [][\A t \in Threads : \A l \in LogLevel :
            (pc[W] = "w_done" /\ log(t, l, 2))
            => (pc'[t] = "lm_push") = (l >= current_log_level)]_vars
    /\ [][\A t \in Threads :
            (pc[W] = "w_done" /\ lm_push(t))
            => log_queue' = Append(log_queue, formatLogMessage(t, arg[t], seq[t]))]_vars

\* C36 witness: shutdown has returned, the worker is terminated and joined,
\* and two records logged by t2 after that are in the queue, all calls made.
C36_Witness ==
    /\ pc[W] = "w_done" /\ ~joinable /\ ~threw
    /\ \A t \in Threads : pc[t] = "idle" /\ ops[t] = 0
    /\ Len(log_queue) >= 2
    /\ \A i \in DOMAIN log_queue : log_queue[i].p = "t2"
    /\ Len(console) = BootCount

\* C37: of two shutdown calls running at the same time, none finds the
\* worker thread being joined by the other when it reaches its own join, and
\* none is left by an exception.
C37_ConcurrentShutdown ==
    /\ ~threw
    /\ \A t \in Threads : (pc[t] = "sd_join" /\ joinable) => joiner = NoOne

\* ------------------------------------------------- the first call, twice
\* Logger::log, line 69: pImpl is read with no lock; when it is null the
\* assignment of line 70 is next, when not, pImpl->logMessage (line 73).
logTest(t, level, len) ==
    /\ Start(t)
    /\ LET a == [lvl |-> level, len |-> len, below |-> FALSE]
       IN IF ~pImpl
          THEN /\ carg' = [carg EXCEPT ![t] = a]
               /\ Goto(t, "lg_make")
               /\ UNCHANGED <<seq, lm_ret, arg>>
          ELSE /\ LogMessage(t, a, "idle")
               /\ UNCHANGED carg
    /\ UNCHANGED <<pImpl, cfgVars, fileVars, log_queue, queue_mutex, log_mutex,
                   cv_waiting, should_stop, threadVars, fl_ret, i_k,
                   f_timedout, wmsg, histVars, restEnv>>
    /\ UNCHANGED <<fmtVars, apiVars>>

\* Another thread is executing a member function of the engine.
EngineInUse(t) ==
    \E u \in Threads \ {t} : pc[u] \notin {"idle", "lg_make", "lg_init"}

\* The fields of an Impl just made (lines 118-132); a thread that is not
\* started has no position.
FreshEngine(t) ==
    /\ current_log_level' = INFO
    /\ log_target' = BOTH
    /\ max_file_size_bytes' = DefaultSizeMb * MiB
    /\ max_backup_files' = DefaultBackups
    /\ log_file_open' = FALSE
    /\ log_file_fail' = FALSE
    /\ log_queue' = <<>>
    /\ queue_mutex' = NoOne
    /\ log_mutex' = NoOne
    /\ cv_waiting' = {}
    /\ should_stop' = FALSE
    /\ wmsg' = NoLine
    /\ pc' = [pc EXCEPT ![t] = "lg_init", ![W] = "none"]

\* Line 70, pImpl = std::make_unique<Impl>(), unconditional once the test of
\* line 69 has been passed.  When pImpl is still null the new engine is
\* installed.  When another thread has installed one since, the assignment
\* destroys that engine: ~Impl (lines 136-138) runs shutdown on it, through
\* the join when its worker is joinable, and the fresh engine takes its
\* place; destroying an engine another thread is executing in is undefined,
\* the process faults or goes on.
lg_make(t) ==
    /\ Alive
    /\ pc[t] = "lg_make"
    /\ pImpl' = TRUE
    /\ IF ~pImpl
       THEN /\ Goto(t, "lg_init")
            /\ UNCHANGED <<cfgVars, log_file_open, log_file_fail, log_queue,
                           queue_mutex, log_mutex, cv_waiting, should_stop,
                           wmsg, fl_ret, sd_mark, sd_running, aborted>>
       ELSE IF joinable
            THEN /\ Goto(t, "fl_lock")
                 /\ fl_ret' = [fl_ret EXCEPT ![t] = "sd_stop"]
                 /\ sd_mark' = [sd_mark EXCEPT ![t] = Accepted]
                 /\ sd_running' = [sd_running EXCEPT ![t] = ~should_stop]
                 /\ UNCHANGED <<cfgVars, log_file_open, log_file_fail,
                                log_queue, queue_mutex, log_mutex, cv_waiting,
                                should_stop, wmsg, aborted>>
            ELSE /\ FreshEngine(t)
                 /\ IF EngineInUse(t)
                    THEN \E b \in BOOLEAN : aborted' = b
                    ELSE UNCHANGED aborted
                 /\ UNCHANGED <<fl_ret, sd_mark, sd_running>>
    /\ UNCHANGED <<fexists, fdata, threadVars, lm_ret, carg, arg, i_k,
                   f_timedout, histVars, seq, ops, got, threw>>
    /\ UNCHANGED <<fmtVars, apiVars>>

\* Line 71: pImpl->initialize with the defaults of the lazy path, on the
\* engine pImpl points to when it is dereferenced (lines 142-146).
lg_init(t) ==
    /\ Alive
    /\ pc[t] = "lg_init"
    /\ Configure(LazyArg)
    /\ Goto(t, "init_open")
    /\ UNCHANGED <<pImpl, fileVars, log_queue, queue_mutex, log_mutex,
                   cv_waiting, should_stop, threadVars, lm_ret, fl_ret,
                   locVars, histVars, seq, envVars>>
    /\ UNCHANGED <<fmtVars, apiVars>>

LazySteps == \E t \in Threads : lg_make(t) \/ lg_init(t)

\* Two threads log on a Logger nobody has initialised.
FirstCalls == \E t \in Threads : \E l \in {INFO, WARN} : logTest(t, l, 2)

FirstNext ==
    FirstCalls \/ LazySteps \/ LogSteps \/ InitSteps \/ WorkerSteps
    \/ FlushSteps \/ Timeout \/ ShutdownSteps \/ Spurious

\* Each thread makes its first call.
FirstInit ==
    /\ Constructed
    /\ fmt_call = NoCall
    /\ ops = [t \in Threads |-> LiveOps]

SpecFirst == FirstInit /\ [][FirstNext]_vars

\* C38: when two threads make the first call at the same time one engine is
\* made and one worker started: no thread is about to make an engine when
\* one exists, a thread initialises only an engine whose worker has not been
\* started, and the process is not terminated.
C38_OneEngineOneWorker ==
    /\ ~aborted
    /\ \A t \in Threads : pc[t] = "lg_make" => ~pImpl
    /\ \A t \in Threads : pc[t] \in {"init_open", "init_start"} => ~joinable

\* ------------------------------------------------- the file is not open
\* The file target alone; the open of initialize and the reopen of a
\* rotation may fail; two threads log and flush.
NoFileSteps ==
    \/ \E t \in Threads : init_open(t, FALSE)
    \/ w_rotate(-1, FALSE)

NoFileCalls ==
    \/ ~pImpl /\ initialize("t1", INFO, FILE, 1, 2)
    \/ /\ Initialized("t1")
       /\ \E t \in Threads : log(t, INFO, 2) \/ flush(t)

NoFileNext ==
    NoFileCalls \/ LogSteps \/ InitSteps \/ NoFileSteps \/ WorkerSteps
    \/ RotateSteps \/ FlushSteps \/ Timeout \/ Spurious

SpecNoFile == ConcInit /\ [][NoFileNext]_vars

\* C39: a file handle that is not open is opened by nothing but the open of
\* initialize (the worker, log and flush never open it); while it is not
\* open the worker still takes the queued records one by one and hands each
\* to the write step, which writes nothing to the file, goes into no
\* rotation and, the target being FILE, writes nothing to the console.
C39_ClosedFileStaysClosed ==
    /\ [][(~log_file_open /\ log_file_open')
          => \E t \in Threads : init_open(t, TRUE)]_vars
    /\ [][((w_lock \/ w_relock) /\ ~log_file_open /\ log_queue # <<>>)
          => (wmsg' = Head(log_queue) /\ log_queue' = Tail(log_queue))]_vars
    /\ [][(w_write /\ ~log_file_open)
          => /\ handed' = Append(handed, wmsg)
             /\ pc'[W] = "w_relock"
             /\ UNCHANGED <<fdata, fexists, fileWritten, log_file_open>>
             /\ (log_target = FILE => console' = console)]_vars

\* C39 witness: the reopen after a rotation failed; a record t2 logged has
\* since been handed to the write step and is in no file and not on the
\* console, and the handle is still not open.
C39_Witness ==
    /\ ~log_file_open
    /\ Rotations >= 1
    /\ 1 \in fexists /\ 0 \notin fexists
    /\ handed # <<>> /\ Last(handed).p = "t2"
    /\ Len(handed) > Len(fileWritten)
    /\ console = <<>>
    /\ pc[W] = "w_relock"

\* C40: with target BOTH and the file open, the write step appends the
\* record it was handed to the console and to the file while the worker
\* holds log_mutex, so the lines on the console are the lines written to
\* the file, in the same order.
C40_ConsoleEqualsFile ==
    /\ []((log_target = BOTH /\ log_file_open) => console = fileWritten)
    /\ [][(w_write /\ log_target = BOTH /\ log_file_open)
          => /\ log_mutex = W
             /\ console' = Append(console, wmsg)
             /\ fileWritten' = Append(fileWritten, wmsg)]_vars

\* C40 witness: records of both threads are on the console and in the file,
\* the file has been rotated and is open.
C40_Witness ==
    /\ log_target = BOTH /\ log_file_open
    /\ Rotations >= 1
    /\ console = fileWritten
    /\ \E i \in DOMAIN console : console[i].p = "t1" /\ console[i].n > BootCount
    /\ \E i \in DOMAIN console : console[i].p = "t2"
    /\ \E i \in DOMAIN console : console[i].p = W
====
